---- MODULE Spec2Model ----
(***************************************************************************)
(* A model of the shuttle proxy core: the ServiceRegistry (services and    *)
(* the vhost table), the Service runtime (backends, balancer, listener    *)
(* loops, TCP connection handlers) and the Backend health check.          *)
(*                                                                         *)
(* Encodings.  Hostnames are small integers ordered like the strings they *)
(* stand for: 0 is the empty string "", 1 is "a", 2 is "b".  ErrorPages   *)
(* maps are codes: 0 is the nil map, other numbers are distinct maps.     *)
(* A Go slice that nil-ness matters for carries a ...Nil flag beside the  *)
(* sequence of its elements.  A time.Duration is a count of microseconds  *)
(* (milliseconds * Millisecond), the unit that keeps every product within *)
(* the model checker's integers.                                          *)
(***************************************************************************)
EXTENDS Integers, Sequences, FiniteSets, TLC

VARIABLES
    svcs,           \* Registry.svcs: name -> Service
    vhosts,         \* Registry.vhosts: hostname -> VirtualHost
    cfg,            \* Registry.cfg: the global defaults
    loops,          \* the accept / receive loop of every service ever started
    orphans,        \* health-check tasks still running for backends no service lists
    conns,          \* accepted TCP connections and their handlers
    httpsRedirect,  \* the process-wide https-redirect flag of the command line
    flows,          \* the upstream sockets and reply tasks of the UDP datagrams followed
    tasks,          \* the callers of the registry followed lock by lock
    store,          \* the state file and the tasks that write it
    ret             \* the operation that made the last step, its arguments and result

vars == <<svcs, vhosts, cfg, loops, orphans, conns, httpsRedirect, flows, tasks, store, ret>>

----------------------------------------------------------------------------
\* Bounds of the model

\* longest VirtualHosts list a submitted config carries
MaxVHosts == 2
\* saturation point of the consecutive probe counters (>= every Fall and Rise used)
MaxStreak == 2
\* TCP connections accepted in one behaviour
MaxConns == 1
\* selections of a balancer that ret.log records
MaxPicks == 7
\* UDP flows (upstream socket and reply task) opened in one behaviour
MaxFlows == 2
\* writers of the state file started and not yet finished
MaxWriters == 2

----------------------------------------------------------------------------
\* Program constants (client package)

DefaultTimeout == 2000
DefaultCheckInterval == 5000
DefaultWeight == 1
DefaultFall == 2
DefaultRise == 2
Millisecond == 1000

DefaultNet == "tcp"
RoundRobin == "RR"
LeastConn == "LC"
DefaultBalance == RoundRobin

----------------------------------------------------------------------------
\* Sequence helpers

SeqToSet(s) == {s[i] : i \in DOMAIN s}

Min(a, b) == IF a < b THEN a ELSE b

\* index of the first element of s satisfying name equality, 0 when there is none
IndexOfName(s, name) ==
    IF \E i \in DOMAIN s : s[i].Name = name
    THEN CHOOSE i \in DOMAIN s : s[i].Name = name /\ \A j \in 1..(i-1) : s[j].Name # name
    ELSE 0

IndexOf(s, x) ==
    IF \E i \in DOMAIN s : s[i] = x
    THEN CHOOSE i \in DOMAIN s : s[i] = x /\ \A j \in 1..(i-1) : s[j] # x
    ELSE 0

RemoveAt(s, i) == SubSeq(s, 1, i-1) \o SubSeq(s, i+1, Len(s))

RECURSIVE InsertSorted(_, _)
InsertSorted(x, s) ==
    IF s = <<>> THEN <<x>>
    ELSE IF x <= Head(s) THEN <<x>> \o s
    ELSE <<Head(s)>> \o InsertSorted(x, Tail(s))

\* sort.Strings: ascending order, in place
RECURSIVE SortStrings(_)
SortStrings(s) ==
    IF s = <<>> THEN <<>> ELSE InsertSorted(Head(s), SortStrings(Tail(s)))

\* all sequences over S of length at most n
RECURSIVE SeqsUpTo(_, _)
SeqsUpTo(S, n) ==
    IF n = 0 THEN {<<>>}
    ELSE LET shorter == SeqsUpTo(S, n-1)
         IN shorter \cup {Append(s, x) : s \in {t \in shorter : Len(t) = n-1}, x \in S}

----------------------------------------------------------------------------
\* utils.go

RECURSIVE filterEmptyLoop(_, _, _)
filterEmptyLoop(a, i, removed) ==
    IF i > Len(a) THEN [arr |-> a, n |-> Len(a) - removed]
    ELSE LET a1 == IF removed > 0 THEN [a EXCEPT ![i - removed] = a[i]] ELSE a
             r1 == IF a1[i] = 0 THEN removed + 1 ELSE removed
         IN filterEmptyLoop(a1, i + 1, r1)

\* filterEmpty works in place: arr is the caller's array after the call (every
\* slice sharing it sees these elements), n the length of the slice returned.
filterEmpty(a) == filterEmptyLoop(a, 1, 0)

----------------------------------------------------------------------------
\* client package: the config values

ZeroBackendConfig(name) ==
    [Name |-> name, Addr |-> "", Network |-> "", CheckAddr |-> "", Weight |-> 0]

BackendSetDefaults(b) ==
    [b EXCEPT !.Weight = IF b.Weight = 0 THEN DefaultWeight ELSE b.Weight,
              !.Network = IF b.Network = "" THEN DefaultNet ELSE b.Network]

BackendEqual(b, other) == BackendSetDefaults(b) = BackendSetDefaults(other)

ZeroServiceConfig(name) ==
    [Name |-> name, Addr |-> "", Network |-> "", Balance |-> "",
     CheckInterval |-> 0, Fall |-> 0, Rise |-> 0,
     ClientTimeout |-> 0, ServerTimeout |-> 0, DialTimeout |-> 0,
     HTTPSRedirect |-> FALSE, VHNil |-> TRUE, VirtualHosts |-> <<>>,
     ErrorPages |-> 0, BackendsNil |-> TRUE, Backends |-> <<>>,
     MaintenanceMode |-> FALSE]

ZeroConfig ==
    [Balance |-> "", CheckInterval |-> 0, Fall |-> 0, Rise |-> 0,
     ClientTimeout |-> 0, ServerTimeout |-> 0, DialTimeout |-> 0,
     HTTPSRedirect |-> FALSE]

ServiceSetDefaults(s) ==
    [s EXCEPT !.Balance = IF s.Balance = "" THEN DefaultBalance ELSE s.Balance,
              !.CheckInterval = IF s.CheckInterval = 0 THEN DefaultCheckInterval ELSE s.CheckInterval,
              !.ClientTimeout = IF s.ClientTimeout = 0 THEN DefaultTimeout ELSE s.ClientTimeout,
              !.ServerTimeout = IF s.ServerTimeout = 0 THEN DefaultTimeout ELSE s.ServerTimeout,
              !.Rise = IF s.Rise = 0 THEN DefaultRise ELSE s.Rise,
              !.Fall = IF s.Fall = 0 THEN DefaultFall ELSE s.Fall,
              !.Network = IF s.Network = "" THEN DefaultNet ELSE s.Network]

\* ServiceConfig.Merge: aliasing of the VirtualHosts and Backends slices is
\* tracked by the caller (a nil field of cfg keeps the receiver's slice).
Merge(s, c) ==
    [Name |-> c.Name,
     Addr |-> IF c.Addr # "" THEN c.Addr ELSE s.Addr,
     Network |-> IF c.Network # "" THEN c.Network ELSE s.Network,
     Balance |-> IF c.Balance # "" THEN c.Balance ELSE s.Balance,
     CheckInterval |-> IF c.CheckInterval # 0 THEN c.CheckInterval ELSE s.CheckInterval,
     Fall |-> IF c.Fall # 0 THEN c.Fall ELSE s.Fall,
     Rise |-> IF c.Rise # 0 THEN c.Rise ELSE s.Rise,
     ClientTimeout |-> IF c.ClientTimeout # 0 THEN c.ClientTimeout ELSE s.ClientTimeout,
     ServerTimeout |-> IF c.ServerTimeout # 0 THEN c.ServerTimeout ELSE s.ServerTimeout,
     DialTimeout |-> IF c.DialTimeout # 0 THEN c.DialTimeout ELSE s.DialTimeout,
     HTTPSRedirect |-> c.HTTPSRedirect,
     VHNil |-> IF ~c.VHNil THEN FALSE ELSE s.VHNil,
     VirtualHosts |-> IF ~c.VHNil THEN c.VirtualHosts ELSE s.VirtualHosts,
     ErrorPages |-> IF c.ErrorPages # 0 THEN c.ErrorPages ELSE s.ErrorPages,
     BackendsNil |-> IF ~c.BackendsNil THEN FALSE ELSE s.BackendsNil,
     Backends |-> IF ~c.BackendsNil THEN c.Backends ELSE s.Backends,
     MaintenanceMode |-> c.MaintenanceMode]

\* ServiceConfig.Equal: the backends are dropped, defaults set on both sides, the
\* receiver's VirtualHosts sorted (the argument's are not), then reflect.DeepEqual
\* over every remaining field.  The sort is in place: the caller applies it to the
\* slice it passed.
ServiceEqual(s, other) ==
    LET a == [ServiceSetDefaults(s) EXCEPT !.Backends = <<>>, !.BackendsNil = TRUE,
                                           !.VirtualHosts = SortStrings(s.VirtualHosts)]
        b == [ServiceSetDefaults(other) EXCEPT !.Backends = <<>>, !.BackendsNil = TRUE]
    IN a = b

----------------------------------------------------------------------------
\* Backend (its source file is not part of src/: modelled from the specification
\* and from what service.go and the tests use of it)

\* The identity of a Backend object: each NewBackend gets, for its service and
\* name, the least id that no live object of that service and name carries in
\* the state the operation started in (the list of the service, and the lists
\* connection handlers still hold).
UsedIds(sn, bn) ==
    (IF sn \in DOMAIN svcs
     THEN {svcs[sn].Backends[i].id :
               i \in {j \in DOMAIN svcs[sn].Backends : svcs[sn].Backends[j].Name = bn}}
     ELSE {})
    \cup UNION {{c.order[i].id : i \in {j \in DOMAIN c.order : c.order[j].Name = bn}} :
                    c \in {d \in conns : d.svc = sn}}

FreshId(sn, bn) == CHOOSE k \in 0..Cardinality(UsedIds(sn, bn)) : k \notin UsedIds(sn, bn)

\* NewBackend: the config with its defaults set, counters zero, no task yet.
NewBackend(b, id) ==
    LET c == BackendSetDefaults(b)
    IN [Name |-> c.Name, Addr |-> c.Addr, Network |-> c.Network,
        CheckAddr |-> c.CheckAddr, Weight |-> c.Weight, id |-> id,
        up |-> FALSE, rwTimeout |-> 0, dialTimeout |-> 0, checkInterval |-> 0,
        okStreak |-> 0, failStreak |-> 0, Errors |-> 0, running |-> FALSE]

\* Backend.Config
BackendConfigOf(b) ==
    [Name |-> b.Name, Addr |-> b.Addr, Network |-> b.Network,
     CheckAddr |-> b.CheckAddr, Weight |-> b.Weight]

\* Backend.Start: the health-check task runs only with a check address.
Start(b) == [b EXCEPT !.running = (b.CheckAddr # "")]

\* mutant: a probe that leaves the streak of the other kind as it is
checkKeepingStreaks(s, b, ok) ==
    IF ok
    THEN LET n == Min(b.okStreak + 1, MaxStreak)
         IN [b EXCEPT !.okStreak = n,
                      !.up = IF ~b.up /\ n >= s.Rise THEN TRUE ELSE b.up]
    ELSE LET n == Min(b.failStreak + 1, MaxStreak)
         IN [b EXCEPT !.failStreak = n,
                      !.up = IF b.up /\ n >= s.Fall THEN FALSE ELSE b.up]

\* The result of one probe of a backend of service s: ok is whether the dial of
\* CheckAddr succeeded.  The streak of the other kind is reset; Fall consecutive
\* failures take an Up backend Down, Rise consecutive successes a Down one Up.
check(s, b, ok) ==
    IF ok
    THEN LET n == Min(b.okStreak + 1, MaxStreak)
         IN [b EXCEPT !.okStreak = n, !.failStreak = 0,
                      !.up = IF ~b.up /\ n >= s.Rise THEN TRUE ELSE b.up]
    ELSE LET n == Min(b.failStreak + 1, MaxStreak)
         IN [b EXCEPT !.failStreak = n, !.okStreak = 0,
                      !.up = IF b.up /\ n >= s.Fall THEN FALSE ELSE b.up]

----------------------------------------------------------------------------
\* service.go: Service

\* the network names of fewer than three characters
Short(network) == network \in {"ip"}

\* Service.add takes the first three characters of the network of the service
\* and of the backend to compare them (the result is only logged): the slice
\* panics on a name shorter than that
addPanics(s, backend) == Short(s.Network) \/ Short(backend.Network)

\* mutant: Service.add without the search for a backend of the same name
addAppending(s, backend) ==
    LET b == [backend EXCEPT !.up = TRUE,
                             !.rwTimeout = s.ServerTimeout,
                             !.dialTimeout = s.DialTimeout,
                             !.checkInterval = s.CheckInterval * Millisecond]
    IN [s EXCEPT !.Backends = Append(@, Start(b))]

\* Service.add without the Stop of the backend it replaces: the task of the old
\* backend keeps probing in the place of the new one
addNotStopping(s, backend) ==
    LET b == [backend EXCEPT !.up = TRUE,
                             !.rwTimeout = s.ServerTimeout,
                             !.dialTimeout = s.DialTimeout,
                             !.checkInterval = s.CheckInterval * Millisecond]
        i == IndexOfName(s.Backends, b.Name)
    IN IF i # 0
       THEN [s EXCEPT !.Backends[i] = [Start(b) EXCEPT !.running = @ \/ s.Backends[i].running]]
       ELSE [s EXCEPT !.Backends = Append(@, Start(b))]

\* Service.add
add(s, backend) ==
    LET b == [backend EXCEPT !.up = TRUE,
                             !.rwTimeout = s.ServerTimeout,
                             !.dialTimeout = s.DialTimeout,
                             !.checkInterval = s.CheckInterval * Millisecond]
        i == IndexOfName(s.Backends, b.Name)
    IN IF i # 0
       THEN [s EXCEPT !.Backends[i] = Start(b)]
       ELSE [s EXCEPT !.Backends = Append(@, Start(b))]

\* Service.remove that cuts the list short without moving the last backend into
\* the place of the removed one
removeTruncating(s, name) ==
    LET i == IndexOfName(s.Backends, name)
    IN IF i = 0 THEN [s |-> s, ok |-> FALSE]
       ELSE [s |-> [s EXCEPT !.Backends = SubSeq(@, 1, Len(@) - 1)], ok |-> TRUE]

\* Service.remove: the last backend takes the place of the removed one.
remove(s, name) ==
    LET i == IndexOfName(s.Backends, name)
        last == Len(s.Backends)
    IN IF i = 0 THEN [s |-> s, ok |-> FALSE]
       ELSE [s |-> [s EXCEPT !.Backends =
                               SubSeq([s.Backends EXCEPT ![i] = s.Backends[last]], 1, last - 1)],
             ok |-> TRUE]

\* the reference a connection handler holds of a Backend object
Ref(b) == [Name |-> b.Name, id |-> b.id]

\* Backend.Up
Up(b) == b.up

\* the Up backends of a list, from index i on, as references
RECURSIVE UpRefs(_, _)
UpRefs(bs, i) ==
    IF i > Len(bs) THEN <<>>
    ELSE (IF Up(bs[i]) THEN <<Ref(bs[i])>> ELSE <<>>) \o UpRefs(bs, i + 1)

\* the list rotated to start at index k (1-based)
Rotate(bs, k) == SubSeq(bs, k, Len(bs)) \o SubSeq(bs, 1, k - 1)

\* the selection as the rule of the repeat counter alone gives it, with no test
\* of the last-served index against the length of the list: the weight is read
\* at lastBackend wherever that points (a read past the end finds no weight to
\* honour and moves on)
roundRobinUnchecked(s) ==
    LET N == Len(s.Backends)
        last == s.lastBackend
        keep == last < N /\ s.lastCount < s.Backends[Min(last, N - 1) + 1].Weight
        nb == IF keep THEN last ELSE (last + 1) % N
        nc == IF keep THEN s.lastCount + 1 ELSE 1
    IN IF N = 0 THEN [s |-> s, list |-> <<>>, at |-> {}]
       ELSE [s |-> [s EXCEPT !.lastBackend = nb, !.lastCount = nc],
             list |-> UpRefs(Rotate(s.Backends, nb + 1), 1),
             at |-> {last, nb}]

\* Service.roundRobin (its source is not part of src/): the last-served backend
\* is repeated up to its Weight, then the next one takes over; the result is the
\* list of Up backends rotated to start there.  An index past the end of a list
\* that has shrunk starts over at the first backend.
\* at: the indexes (from 0, as lastBackend counts) at which the selection reads
\* the list.
roundRobin(s) ==
    LET N == Len(s.Backends)
        inRange == s.lastBackend < N
        last == IF inRange THEN s.lastBackend ELSE 0
        count == IF inRange THEN s.lastCount ELSE 0
        keep == count < s.Backends[last + 1].Weight
        nb == IF keep THEN last ELSE (last + 1) % N
        nc == IF keep THEN count + 1 ELSE 1
    IN IF N = 0 THEN [s |-> s, list |-> <<>>, at |-> {}]
       ELSE [s |-> [s EXCEPT !.lastBackend = nb, !.lastCount = nc],
             list |-> UpRefs(Rotate(s.Backends, nb + 1), 1),
             at |-> {last, nb}]

\* Service.udpRoundRobin (not part of src/): the head of the same rotation, or
\* nil (the empty list here) when no backend is Up
udpRoundRobin(s) ==
    LET r == roundRobin(s)
    IN [s |-> r.s, list |-> IF r.list = <<>> THEN <<>> ELSE <<r.list[1]>>, at |-> r.at]

\* Backend.Active, as the connections a backend is proxying
Active(sn, ref) == Cardinality({c \in conns : c.svc = sn /\ c.state = "proxied" /\ c.to = ref})

\* references sorted ascending by Active, ties in the order of the list
RECURSIVE SortByActive(_, _)
SortByActive(sn, refs) ==
    IF refs = <<>> THEN <<>>
    ELSE LET m == CHOOSE i \in DOMAIN refs :
                     \A j \in DOMAIN refs :
                        \/ Active(sn, refs[i]) < Active(sn, refs[j])
                        \/ (Active(sn, refs[i]) = Active(sn, refs[j]) /\ i <= j)
         IN <<refs[m]>> \o SortByActive(sn, RemoveAt(refs, m))

\* Service.leastConn (not part of src/): the Up backends by ascending Active
leastConn(s) == [s |-> s, list |-> SortByActive(s.Name, UpRefs(s.Backends, 1)), at |-> {}]

\* the call s.next()
next(s) == IF s.next = "leastConn" THEN leastConn(s) ELSE roundRobin(s)

\* a Balance switch that installs round robin whatever the config says
NextForRoundRobin(balance) == "roundRobin"

\* the balancer the Balance switch installs as Service.next
NextFor(balance) == IF balance = LeastConn THEN "leastConn" ELSE "roundRobin"

RECURSIVE addAll(_, _, _)
addAll(s, bs, i) ==
    IF i > Len(bs) THEN s
    ELSE addAll(add(s, NewBackend(bs[i], FreshId(s.Name, bs[i].Name))), bs, i + 1)

\* mutant: NewService with the repeat counter of the balancer started at one
NewServiceCounting(c) ==
    LET s0 == [Name |-> c.Name, Addr |-> c.Addr, Balance |-> c.Balance,
               CheckInterval |-> IF c.CheckInterval = 0 THEN DefaultCheckInterval ELSE c.CheckInterval,
               Fall |-> IF c.Fall = 0 THEN DefaultFall ELSE c.Fall,
               Rise |-> IF c.Rise = 0 THEN DefaultRise ELSE c.Rise,
               HTTPSRedirect |-> c.HTTPSRedirect,
               VHNil |-> c.VHNil, VirtualHosts |-> c.VirtualHosts,
               ClientTimeout |-> c.ClientTimeout * Millisecond,
               ServerTimeout |-> c.ServerTimeout * Millisecond,
               DialTimeout |-> c.DialTimeout * Millisecond,
               errPagesCfg |-> c.ErrorPages,
               Network |-> IF c.Network = "" THEN DefaultNet ELSE c.Network,
               MaintenanceMode |-> c.MaintenanceMode,
               Backends |-> <<>>, next |-> "roundRobin",
               lastBackend |-> 0, lastCount |-> 1]
    IN [addAll(s0, c.Backends, 1) EXCEPT !.next = NextFor(c.Balance)]

\* NewService
NewService(c) ==
    LET s0 == [Name |-> c.Name, Addr |-> c.Addr, Balance |-> c.Balance,
               CheckInterval |-> IF c.CheckInterval = 0 THEN DefaultCheckInterval ELSE c.CheckInterval,
               Fall |-> IF c.Fall = 0 THEN DefaultFall ELSE c.Fall,
               Rise |-> IF c.Rise = 0 THEN DefaultRise ELSE c.Rise,
               HTTPSRedirect |-> c.HTTPSRedirect,
               VHNil |-> c.VHNil, VirtualHosts |-> c.VirtualHosts,
               ClientTimeout |-> c.ClientTimeout * Millisecond,
               ServerTimeout |-> c.ServerTimeout * Millisecond,
               DialTimeout |-> c.DialTimeout * Millisecond,
               errPagesCfg |-> c.ErrorPages,
               Network |-> IF c.Network = "" THEN DefaultNet ELSE c.Network,
               MaintenanceMode |-> c.MaintenanceMode,
               Backends |-> <<>>, next |-> "roundRobin",
               lastBackend |-> 0, lastCount |-> 0]
    IN [addAll(s0, c.Backends, 1) EXCEPT !.next = NextFor(c.Balance)]

\* mutant: Service.UpdateConfig without the test of Addr
ServiceUpdateConfigAnyAddr(s, c) ==
    IF s.ClientTimeout # c.ClientTimeout * Millisecond
    THEN [s |-> s, err |-> "ErrInvalidServiceUpdate"]
    ELSE [s |-> [s EXCEPT !.CheckInterval = c.CheckInterval,
                          !.Fall = c.Fall,
                          !.Rise = c.Rise,
                          !.ServerTimeout = c.ServerTimeout * Millisecond,
                          !.DialTimeout = c.DialTimeout * Millisecond,
                          !.HTTPSRedirect = c.HTTPSRedirect,
                          !.MaintenanceMode = c.MaintenanceMode,
                          !.Balance = c.Balance,
                          !.next = IF s.Balance # c.Balance THEN NextFor(c.Balance) ELSE s.next],
          err |-> "nil"]

\* Service.UpdateConfig
ServiceUpdateConfig(s, c) ==
    IF s.ClientTimeout # c.ClientTimeout * Millisecond
    THEN [s |-> s, err |-> "ErrInvalidServiceUpdate"]
    ELSE IF s.Addr # "" /\ s.Addr # c.Addr
    THEN [s |-> s, err |-> "ErrInvalidServiceUpdate"]
    ELSE [s |-> [s EXCEPT !.CheckInterval = c.CheckInterval,
                          !.Fall = c.Fall,
                          !.Rise = c.Rise,
                          !.ServerTimeout = c.ServerTimeout * Millisecond,
                          !.DialTimeout = c.DialTimeout * Millisecond,
                          !.HTTPSRedirect = c.HTTPSRedirect,
                          !.MaintenanceMode = c.MaintenanceMode,
                          !.Balance = c.Balance,
                          !.next = IF s.Balance # c.Balance THEN NextFor(c.Balance) ELSE s.next],
          err |-> "nil"]

\* Service.config
config(s) ==
    [Name |-> s.Name, Addr |-> s.Addr, Network |-> s.Network, Balance |-> s.Balance,
     CheckInterval |-> s.CheckInterval, Fall |-> s.Fall, Rise |-> s.Rise,
     ClientTimeout |-> s.ClientTimeout \div Millisecond,
     ServerTimeout |-> s.ServerTimeout \div Millisecond,
     DialTimeout |-> s.DialTimeout \div Millisecond,
     HTTPSRedirect |-> s.HTTPSRedirect,
     VHNil |-> s.VHNil, VirtualHosts |-> s.VirtualHosts,
     ErrorPages |-> s.errPagesCfg,
     BackendsNil |-> (Len(s.Backends) = 0),
     Backends |-> [i \in DOMAIN s.Backends |-> BackendConfigOf(s.Backends[i])],
     MaintenanceMode |-> s.MaintenanceMode]

\* Service.Available: the number of backends that are Up, none in maintenance
\* mode
Available(s) ==
    IF s.MaintenanceMode THEN 0
    ELSE Cardinality({i \in DOMAIN s.Backends : Up(s.Backends[i])})

\* a ServeHTTP that hands a request to the reverse proxy in maintenance mode too
ServeHTTPInMaintenance(s, r) ==
    IF s.HTTPSRedirect /\ (r.TLS \/ r.XForwardedProto # "https")
    THEN [status |-> 301, Location |-> <<"https://", r.Host, r.RequestURI>>, proxied |-> FALSE]
    ELSE [status |-> 0, Location |-> <<>>, proxied |-> TRUE]

\* Service.ServeHTTP, as far as the answer of the service itself goes: the
\* redirect, the 503 of maintenance mode (the headers and body of a custom error
\* page are not followed), or the hand-over to the reverse proxy with the list
\* of NextAddrs (status 0 here: the answer is the proxy's).  A request r carries
\* whether it came over TLS, its X-Forwarded-Proto header ("" for none), its
\* Host and its RequestURI.
ServeHTTP(s, r) ==
    IF s.HTTPSRedirect /\ (r.TLS \/ r.XForwardedProto # "https")
    THEN [status |-> 301, Location |-> <<"https://", r.Host, r.RequestURI>>, proxied |-> FALSE]
    ELSE IF s.MaintenanceMode
    THEN [status |-> 503, Location |-> <<>>, proxied |-> FALSE]
    ELSE [status |-> 0, Location |-> <<>>, proxied |-> TRUE]

Family(network) == IF network \in {"tcp", "udp"} THEN network ELSE "unknown"

\* Service.start: the listener is bound and its loop started, or an error is
\* returned.  envFail: the environment refuses the bind.  A fixed address
\* (non-empty here) is also refused while another open listener of the same
\* family holds it.
start(ls, s, envFail) ==
    LET inUse == \E l \in ls : ~l.closed /\ l.net = Family(s.Network)
                               /\ l.addr = s.Addr /\ s.Addr # ""
    IN IF Family(s.Network) = "unknown" \/ envFail \/ inUse
       THEN [ok |-> FALSE, loops |-> ls]
       ELSE [ok |-> TRUE,
             loops |-> ls \cup {[svc |-> s.Name, net |-> Family(s.Network), addr |-> s.Addr,
                                 closed |-> FALSE, pc |-> "wait"]}]

\* Service.stop: every backend is stopped and the listener closed (the loop of
\* the service learns of it at its next accept or read).
stop(ls, s) ==
    {IF l.svc = s.Name /\ ~l.closed THEN [l EXCEPT !.closed = TRUE] ELSE l : l \in ls}

----------------------------------------------------------------------------
\* VirtualHost

NewVirtualHost == [services |-> <<>>, last |-> 0]

\* VirtualHost.Add: nothing is done when the service is already in the list.
VHostAdd(v, name) ==
    IF \E i \in DOMAIN v.services : v.services[i] = name THEN v
    ELSE [v EXCEPT !.services = Append(@, name)]

\* VirtualHost.Remove
VHostRemove(v, name) ==
    LET found == IndexOf(v.services, name)
    IN IF found = 0 THEN v ELSE [v EXCEPT !.services = RemoveAt(@, found)]

\* a map with key k set to value x
MapPut(m, k, x) == [j \in DOMAIN m \cup {k} |-> IF j = k THEN x ELSE m[j]]

\* a map with key k deleted
MapDelete(m, k) == [j \in DOMAIN m \ {k} |-> m[j]]

----------------------------------------------------------------------------
\* ServiceRegistry.  An operation takes the registry W = [svcs, vhosts, cfg,
\* loops, orphans] it starts in and gives the registry it leaves and its result.

\* defaults of the registry that replace what the service config sets
setServiceDefaultsOverriding(g, svc) ==
    [svc EXCEPT
       !.Balance = IF g.Balance # "" THEN g.Balance ELSE svc.Balance,
       !.CheckInterval = IF g.CheckInterval # 0 THEN g.CheckInterval ELSE svc.CheckInterval,
       !.Fall = IF g.Fall # 0 THEN g.Fall ELSE svc.Fall,
       !.Rise = IF g.Rise # 0 THEN g.Rise ELSE svc.Rise,
       !.ClientTimeout = IF g.ClientTimeout # 0 THEN g.ClientTimeout ELSE svc.ClientTimeout,
       !.ServerTimeout = IF g.ServerTimeout # 0 THEN g.ServerTimeout ELSE svc.ServerTimeout,
       !.DialTimeout = IF g.DialTimeout # 0 THEN g.DialTimeout ELSE svc.DialTimeout,
       !.HTTPSRedirect = IF g.HTTPSRedirect THEN TRUE ELSE svc.HTTPSRedirect]

\* ServiceRegistry.setServiceDefaults
setServiceDefaults(g, svc) ==
    [svc EXCEPT
       !.Balance = IF svc.Balance = "" /\ g.Balance # "" THEN g.Balance ELSE svc.Balance,
       !.CheckInterval = IF svc.CheckInterval = 0 /\ g.CheckInterval # 0 THEN g.CheckInterval ELSE svc.CheckInterval,
       !.Fall = IF svc.Fall = 0 /\ g.Fall # 0 THEN g.Fall ELSE svc.Fall,
       !.Rise = IF svc.Rise = 0 /\ g.Rise # 0 THEN g.Rise ELSE svc.Rise,
       !.ClientTimeout = IF svc.ClientTimeout = 0 /\ g.ClientTimeout # 0 THEN g.ClientTimeout ELSE svc.ClientTimeout,
       !.ServerTimeout = IF svc.ServerTimeout = 0 /\ g.ServerTimeout # 0 THEN g.ServerTimeout ELSE svc.ServerTimeout,
       !.DialTimeout = IF svc.DialTimeout = 0 /\ g.DialTimeout # 0 THEN g.DialTimeout ELSE svc.DialTimeout,
       !.HTTPSRedirect = IF g.HTTPSRedirect THEN TRUE ELSE svc.HTTPSRedirect]

\* the loop of AddService and of updateVHosts that registers a service under names
RECURSIVE addVHosts(_, _, _, _)
addVHosts(vh, names, i, svcName) ==
    IF i > Len(names) THEN vh
    ELSE LET v == IF names[i] \in DOMAIN vh THEN vh[names[i]] ELSE NewVirtualHost
         IN addVHosts(MapPut(vh, names[i], VHostAdd(v, svcName)), names, i + 1, svcName)

\* the health-check tasks NewService started for a service that is then dropped
StartedTasks(service) ==
    {[svc |-> service.Name, Name |-> service.Backends[i].Name] :
        i \in {j \in DOMAIN service.Backends : service.Backends[j].running}}

\* ServiceRegistry.AddService past the duplicate test: the service is built
\* (NewService adds the backends of the config, and the call panics with the
\* first add that does) and started, then installed and registered under its
\* non-empty hostnames
addNewService(W, svcCfg0, envFail) ==
    LET svcCfg == ServiceSetDefaults(setServiceDefaults(W.cfg, svcCfg0))
        service == NewService(svcCfg)
        st == start(W.loops, service, envFail)
        fe == filterEmpty(svcCfg.VirtualHosts)
        \* the service shares the array filterEmpty shifted in place
        installed == [service EXCEPT !.VirtualHosts = fe.arr]
        \* the backends of the config at which the add of NewService panics
        bad == {i \in DOMAIN svcCfg.Backends :
                   addPanics(service, NewBackend(svcCfg.Backends[i], 0))}
        first == CHOOSE i \in bad : \A j \in bad : i <= j
        partial == NewService([svcCfg EXCEPT !.Backends = SubSeq(@, 1, first - 1)])
    IN IF bad # {}
       THEN [W |-> [W EXCEPT !.orphans = @ \cup StartedTasks(partial)],
             err |-> "panic"]
       ELSE IF ~st.ok
       THEN [W |-> [W EXCEPT !.orphans = @ \cup StartedTasks(service)],
             err |-> "ErrStart"]
       ELSE [W |-> [W EXCEPT !.svcs = MapPut(@, service.Name, installed),
                             !.loops = st.loops,
                             !.vhosts = addVHosts(@, SubSeq(fe.arr, 1, fe.n), 1, service.Name)],
             err |-> "nil"]

\* mutant: AddService without the duplicate test, replacing the service
AddServiceReplacing(W, svcCfg0, envFail) == addNewService(W, svcCfg0, envFail)

\* ServiceRegistry.AddService
AddService(W, svcCfg0, envFail) ==
    IF svcCfg0.Name \in DOMAIN W.svcs
    THEN [W |-> W, err |-> "ErrDuplicateService"]
    ELSE addNewService(W, svcCfg0, envFail)

\* the linear merge of updateVHosts over the two sorted lists
RECURSIVE diffHosts(_, _, _, _, _, _)
diffHosts(oldHosts, newHosts, i, j, rem, ad) ==
    IF i <= Len(oldHosts) /\ j <= Len(newHosts)
    THEN IF oldHosts[i] # newHosts[j]
         THEN IF oldHosts[i] < newHosts[j]
              THEN diffHosts(oldHosts, newHosts, i + 1, j, Append(rem, oldHosts[i]), ad)
              ELSE diffHosts(oldHosts, newHosts, i, j + 1, rem, Append(ad, newHosts[j]))
         ELSE diffHosts(oldHosts, newHosts, i + 1, j + 1, rem, ad)
    ELSE [remove |-> rem \o SubSeq(oldHosts, i, Len(oldHosts)),
          add |-> ad \o SubSeq(newHosts, j, Len(newHosts))]

\* the removal loop of updateVHosts: a name with no entry in the table is a nil
\* *VirtualHost, and vhost.Len() on it panics
RECURSIVE removeVHosts(_, _, _, _)
removeVHosts(vh, names, i, svcName) ==
    IF i > Len(names) THEN [vhosts |-> vh, panic |-> FALSE]
    ELSE IF names[i] \notin DOMAIN vh THEN [vhosts |-> vh, panic |-> TRUE]
    ELSE LET v == VHostRemove(vh[names[i]], svcName)
         IN removeVHosts(IF Len(v.services) = 0 THEN MapDelete(vh, names[i])
                                                ELSE MapPut(vh, names[i], v),
                         names, i + 1, svcName)

\* ServiceRegistry.updateVHosts.  newHosts is the slice filterEmpty returned;
\* alias says that it shares its array with service.VirtualHosts (it is then
\* the first Len(newHosts) elements of that array, whatever the sorts make them).
updateVHosts(vh, service, newHosts, alias) ==
    LET oldHosts == SortStrings(service.VirtualHosts)
        newSorted == IF alias THEN SortStrings(SubSeq(oldHosts, 1, Len(newHosts)))
                              ELSE SortStrings(newHosts)
        d == diffHosts(oldHosts, newSorted, 1, 1, <<>>, <<>>)
        r == removeVHosts(vh, d.remove, 1, service.Name)
    IN IF r.panic
       THEN [vhosts |-> r.vhosts, panic |-> TRUE,
             service |-> [service EXCEPT !.VirtualHosts = oldHosts]]
       ELSE [vhosts |-> addVHosts(r.vhosts, d.add, 1, service.Name), panic |-> FALSE,
             service |-> [service EXCEPT !.VirtualHosts = newSorted,
                                         !.VHNil = IF alias THEN service.VHNil ELSE FALSE]]

\* the config of the backend of that name in a config's list
BackendCfgNamed(bs, name) == bs[IndexOfName(bs, name)]

\* the first loop of UpdateService over the new backends: an unchanged one is
\* kept, any other is removed and added again; cur is what is left of the map
\* of the running backends
RECURSIVE updateBackends(_, _, _, _, _)
updateBackends(s, curCfgs, cur, newBs, i) ==
    IF i > Len(newBs) THEN [s |-> s, cur |-> cur, panic |-> FALSE]
    ELSE LET nb == newBs[i]
             removed == remove(s, nb.Name).s
             backend == NewBackend(nb, FreshId(s.Name, nb.Name))
         IN IF nb.Name \in cur /\ BackendEqual(BackendCfgNamed(curCfgs, nb.Name), nb)
            THEN updateBackends(s, curCfgs, cur \ {nb.Name}, newBs, i + 1)
            ELSE IF addPanics(removed, backend)
            THEN [s |-> removed, cur |-> cur, panic |-> TRUE]
            ELSE updateBackends(add(removed, backend),
                                curCfgs, cur \ {nb.Name}, newBs, i + 1)

\* UpdateService without its second loop: the left-over backends stay
removeLeftOverKeeping(s, cur, ord, i) == s

\* the second loop: the left-over backends are removed, in the order the map
\* iteration happens to give (ord lists the names in that order)
RECURSIVE removeLeftOver(_, _, _, _)
removeLeftOver(s, cur, ord, i) ==
    IF i > Len(ord) THEN s
    ELSE removeLeftOver(IF ord[i] \in cur THEN remove(s, ord[i]).s ELSE s, cur, ord, i + 1)

\* ServiceRegistry.UpdateService
UpdateService(W, newCfg0, ord) ==
    IF newCfg0.Name \notin DOMAIN W.svcs
    THEN [W |-> W, err |-> "ErrNoService"]
    ELSE
    LET service == W.svcs[newCfg0.Name]
        currentCfg == config(service)
        newCfg == Merge(currentCfg, newCfg0)
        \* a nil VirtualHosts in the update keeps the service's own slice
        alias == newCfg0.VHNil
        u == ServiceUpdateConfig(service, newCfg)
        ub == updateBackends(u.s, currentCfg.Backends,
                             {currentCfg.Backends[k].Name : k \in DOMAIN currentCfg.Backends},
                             newCfg.Backends, 1)
        withBackends == removeLeftOver(ub.s, ub.cur, ord, 1)
        \* currentCfg.Equal sorts the service's VirtualHosts in place
        sortedVH == SortStrings(service.VirtualHosts)
        sorted == [withBackends EXCEPT !.VirtualHosts = sortedVH]
        other == IF alias THEN [newCfg EXCEPT !.VirtualHosts = sortedVH] ELSE newCfg
        pages == [sorted EXCEPT !.errPagesCfg = newCfg.ErrorPages]
        fe == filterEmpty(other.VirtualHosts)
        filtered == IF alias THEN [pages EXCEPT !.VirtualHosts = fe.arr] ELSE pages
        uv == updateVHosts(W.vhosts, filtered, SubSeq(fe.arr, 1, fe.n), alias)
    IN IF u.err # "nil"
       THEN [W |-> W, err |-> u.err]
       ELSE IF ub.panic
       THEN [W |-> [W EXCEPT !.svcs[service.Name] = ub.s], err |-> "panic"]
       ELSE IF ServiceEqual(currentCfg, other)
       THEN [W |-> [W EXCEPT !.svcs[service.Name] = sorted], err |-> "nil"]
       ELSE [W |-> [W EXCEPT !.svcs[service.Name] = uv.service, !.vhosts = uv.vhosts],
             err |-> IF uv.panic THEN "panic" ELSE "nil"]

\* mutant: RemoveService deleting every vhost the removed service answered for,
\* whether or not another service lists it
RemoveServiceDroppingShared(W, name) ==
    IF name \notin DOMAIN W.svcs
    THEN [W |-> W, err |-> "ErrNoService"]
    ELSE LET rest == MapDelete(W.svcs, name)
             kept == {h \in DOMAIN W.vhosts : name \notin SeqToSet(W.vhosts[h].services)}
         IN [W |-> [W EXCEPT !.svcs = rest,
                             !.loops = stop(@, W.svcs[name]),
                             !.vhosts = [h \in kept |-> W.vhosts[h]]],
             err |-> "nil"]

\* ServiceRegistry.RemoveService: the service is dropped and stopped, taken out
\* of every vhost, and a vhost no remaining service lists is deleted
RemoveService(W, name) ==
    IF name \notin DOMAIN W.svcs
    THEN [W |-> W, err |-> "ErrNoService"]
    ELSE LET rest == MapDelete(W.svcs, name)
             kept == {h \in DOMAIN W.vhosts :
                         \E t \in DOMAIN rest : h \in SeqToSet(rest[t].VirtualHosts)}
         IN [W |-> [W EXCEPT !.svcs = rest,
                             !.loops = stop(@, W.svcs[name]),
                             !.vhosts = [h \in kept |-> VHostRemove(W.vhosts[h], name)]],
             err |-> "nil"]

\* ServiceRegistry.AddBackend
AddBackend(W, svcName, backendCfg) ==
    IF svcName \notin DOMAIN W.svcs
    THEN [W |-> W, err |-> "ErrNoService"]
    ELSE IF addPanics(W.svcs[svcName], NewBackend(backendCfg, 0))
    THEN [W |-> W, err |-> "panic"]
    ELSE [W |-> [W EXCEPT !.svcs[svcName] =
                     add(@, NewBackend(backendCfg, FreshId(svcName, backendCfg.Name)))],
          err |-> "nil"]

\* ServiceRegistry.RemoveBackend
RemoveBackend(W, svcName, backendName) ==
    IF svcName \notin DOMAIN W.svcs
    THEN [W |-> W, err |-> "ErrNoService"]
    ELSE LET r == remove(W.svcs[svcName], backendName)
         IN IF ~r.ok THEN [W |-> W, err |-> "ErrNoBackend"]
            ELSE [W |-> [W EXCEPT !.svcs[svcName] = r.s], err |-> "nil"]

\* ServiceRegistry.BackendStats: the stats of the first backend of the name
BackendStats(W, serviceName, backendName) ==
    IF serviceName \notin DOMAIN W.svcs
    THEN [err |-> "ErrNoService"]
    ELSE LET i == IndexOfName(W.svcs[serviceName].Backends, backendName)
         IN IF i = 0 THEN [err |-> "ErrNoBackend"]
            ELSE [err |-> "nil", stat |-> W.svcs[serviceName].Backends[i]]

\* ServiceRegistry.Config: the global defaults and the config of every
\* service, in the order the iteration over the map gives (order lists the
\* names of the services)
Config(W, order) ==
    W.cfg @@ [Services |-> [i \in DOMAIN order |-> config(W.svcs[order[i]])]]

\* a ServiceConfig written as JSON and read back: the tags of VirtualHosts and
\* Backends say omitempty, so an empty list is left out and read back as nil
ServiceViaJSON(sc) ==
    [sc EXCEPT !.VHNil = (Len(sc.VirtualHosts) = 0),
               !.BackendsNil = (Len(sc.Backends) = 0)]

\* a Config written as JSON and read back
ViaJSON(c) == [c EXCEPT !.Services = [i \in DOMAIN c.Services |-> ServiceViaJSON(c.Services[i])]]

\* an address on the admin listener's port, and the test of UpdateConfig for it
AdminAddr == "adm"
PortConflict(addr) == addr = AdminAddr

\* the global defaults UpdateConfig takes from a submitted config
SetGlobals(g, c, flag) ==
    [Balance |-> IF c.Balance # "" THEN c.Balance ELSE g.Balance,
     CheckInterval |-> IF c.CheckInterval # 0 THEN c.CheckInterval ELSE g.CheckInterval,
     Fall |-> IF c.Fall # 0 THEN c.Fall ELSE g.Fall,
     Rise |-> IF c.Rise # 0 THEN c.Rise ELSE g.Rise,
     ClientTimeout |-> IF c.ClientTimeout # 0 THEN c.ClientTimeout ELSE g.ClientTimeout,
     ServerTimeout |-> IF c.ServerTimeout # 0 THEN c.ServerTimeout ELSE g.ServerTimeout,
     DialTimeout |-> IF c.DialTimeout # 0 THEN c.DialTimeout ELSE g.DialTimeout,
     HTTPSRedirect |-> IF flag THEN TRUE ELSE g.HTTPSRedirect]

\* the loop of UpdateConfig over cfg.Services.  The continue of the port test
\* continues the loop over the ports, so a conflicting service is still added
\* or updated.  A panic of UpdateService leaves the loop (and UpdateConfig).
\* log keeps, per service reached, what was called and what it returned.
RECURSIVE applyServices(_, _, _, _, _, _, _)
applyServices(W, services, i, errors, log, envFail, ord) ==
    IF i > Len(services) THEN [W |-> W, errors |-> errors, log |-> log, panic |-> FALSE]
    ELSE LET svc == services[i]
             conflict == PortConflict(svc.Addr)
             errors1 == IF conflict THEN Append(errors, "PortConflict") ELSE errors
             isNew == svc.Name \notin DOMAIN W.svcs
             call == IF isNew THEN "AddService" ELSE "UpdateService"
             After(r) ==
                 LET entry == [Name |-> svc.Name, call |-> call, conflict |-> conflict,
                               err |-> r.err]
                 IN IF r.err = "panic"
                    THEN [W |-> r.W, errors |-> errors1, log |-> Append(log, entry),
                          panic |-> TRUE]
                    ELSE applyServices(r.W, services, i + 1,
                                       IF r.err # "nil" THEN Append(errors1, r.err) ELSE errors1,
                                       Append(log, entry), envFail, ord)
         IN CHOOSE out \in {After(r) : r \in {IF isNew THEN AddService(W, svc, svc.Name \in envFail)
                                                       ELSE UpdateService(W, svc, ord)}} : TRUE

\* UpdateConfig as it would be if the defaults it sets were applied to the
\* services already registered
UpdateConfigRetroactive(W, c, flag, envFail, ord) ==
    LET g == SetGlobals(W.cfg, c, flag)
        redo(s) == [s EXCEPT !.Fall = IF g.Fall # 0 THEN g.Fall ELSE @]
    IN applyServices([W EXCEPT !.cfg = g, !.svcs = [n \in DOMAIN W.svcs |-> redo(W.svcs[n])]],
                     c.Services, 1, <<>>, <<>>, envFail, ord)

\* ServiceRegistry.UpdateConfig
UpdateConfig(W, c, flag, envFail, ord) ==
    applyServices([W EXCEPT !.cfg = SetGlobals(W.cfg, c, flag)],
                  c.Services, 1, <<>>, <<>>, envFail, ord)

----------------------------------------------------------------------------
\* The state machine

Registry == [svcs |-> svcs, vhosts |-> vhosts, cfg |-> cfg, loops |-> loops,
             orphans |-> orphans]

SetRegistry(W) ==
    /\ svcs' = W.svcs
    /\ vhosts' = W.vhosts
    /\ cfg' = W.cfg
    /\ loops' = W.loops
    /\ orphans' = W.orphans

\* what ret records of an operation: its name, the service it names, its
\* result, and from its arguments what the properties read
Ret(op, name, err) ==
    [op |-> op, name |-> name, err |-> err, Addr |-> "", ClientTimeout |-> 0,
     backend |-> "", errors |-> <<>>, log |-> <<>>, n |-> 0, names |-> {}]

\* the callers of the registry that are followed lock by lock
Tasks == {"t1", "t2"}

\* a caller that is in no call: it has nothing left to do and holds no lock
IdleTask ==
    [uc |-> FALSE, c |-> ZeroConfig @@ [Services |-> <<>>], fields |-> <<>>, i |-> 0,
     found |-> "", trace |-> <<>>, held |-> <<>>]

\* no state file is written yet, and no task is writing one: file is the
\* content of the file (<<>> while there is none), writers the tasks started
\* to write it, each with its place and with what it is going to write,
\* locked says that configMutex is held, and changed that a handler has
\* changed the registry
NoStateFile ==
    [file |-> <<>>, writers |-> <<>>, locked |-> FALSE, changed |-> FALSE]

Init ==
    /\ svcs = <<>>
    /\ vhosts = <<>>
    /\ cfg = ZeroConfig
    /\ loops = {}
    /\ orphans = {}
    /\ conns = {}
    /\ httpsRedirect = FALSE
    /\ flows = {}
    /\ tasks = [t \in Tasks |-> IdleTask]
    /\ store = NoStateFile
    /\ ret = Ret("init", "", "nil")

DoAddService(c, envFail) ==
    LET r == AddService(Registry, c, envFail)
    IN /\ SetRegistry(r.W)
       /\ ret' = [Ret("AddService", c.Name, r.err) EXCEPT !.Addr = c.Addr,
                                                         !.ClientTimeout = c.ClientTimeout]
       /\ UNCHANGED <<conns, httpsRedirect, flows, tasks, store>>

DoUpdateService(c, ord) ==
    LET r == UpdateService(Registry, c, ord)
    IN /\ SetRegistry(r.W)
       /\ ret' = [Ret("UpdateService", c.Name, r.err) EXCEPT !.Addr = c.Addr,
                                                            !.ClientTimeout = c.ClientTimeout]
       /\ UNCHANGED <<conns, httpsRedirect, flows, tasks, store>>

\* UpdateService, with the submitted config kept in ret
DoUpdateServiceWith(c, ord) ==
    LET r == UpdateService(Registry, c, ord)
    IN /\ SetRegistry(r.W)
       /\ ret' = [cfg |-> c] @@ Ret("UpdateService", c.Name, r.err)
       /\ UNCHANGED <<conns, httpsRedirect, flows, tasks, store>>

\* AddService, with the submitted config and the answer of the environment to
\* the bind kept in ret
DoAddServiceWith(c, envFail) ==
    LET r == AddService(Registry, c, envFail)
    IN /\ SetRegistry(r.W)
       /\ ret' = [cfg |-> c, envFail |-> envFail] @@ Ret("AddService", c.Name, r.err)
       /\ UNCHANGED <<conns, httpsRedirect, flows, tasks, store>>

DoRemoveService(name) ==
    LET r == RemoveService(Registry, name)
    IN /\ SetRegistry(r.W)
       /\ ret' = Ret("RemoveService", name, r.err)
       /\ UNCHANGED <<conns, httpsRedirect, flows, tasks, store>>

DoAddBackend(svcName, b) ==
    LET r == AddBackend(Registry, svcName, b)
    IN /\ SetRegistry(r.W)
       /\ ret' = [Ret("AddBackend", svcName, r.err) EXCEPT !.backend = b.Name]
       /\ UNCHANGED <<conns, httpsRedirect, flows, tasks, store>>

DoRemoveBackend(svcName, backendName) ==
    LET r == RemoveBackend(Registry, svcName, backendName)
    IN /\ SetRegistry(r.W)
       /\ ret' = [Ret("RemoveBackend", svcName, r.err) EXCEPT !.backend = backendName]
       /\ UNCHANGED <<conns, httpsRedirect, flows, tasks, store>>

DoBackendStats(serviceName, backendName) ==
    LET r == BackendStats(Registry, serviceName, backendName)
    IN /\ ret' = [Ret("BackendStats", serviceName, r.err) EXCEPT !.backend = backendName]
       /\ UNCHANGED <<svcs, vhosts, cfg, loops, orphans, conns, httpsRedirect, flows, tasks, store>>

\* one round of the health-check task of the i-th backend of a service: the
\* dial of its CheckAddr succeeded (ok) or failed
DoCheck(svcName, i, ok) ==
    /\ svcName \in DOMAIN svcs
    /\ i \in DOMAIN svcs[svcName].Backends
    /\ svcs[svcName].Backends[i].running
    /\ svcs' = [svcs EXCEPT ![svcName].Backends[i] = check(svcs[svcName], @, ok)]
    /\ ret' = [Ret("check", svcName, IF ok THEN "ok" ELSE "fail")
                 EXCEPT !.backend = svcs[svcName].Backends[i].Name]
    /\ UNCHANGED <<vhosts, cfg, loops, orphans, conns, httpsRedirect, flows, tasks, store>>

\* what ret records of a step of the data plane: ret.log carries the names of
\* the backends the balancer of the service put first, for NextAddrs and for the
\* datagrams of the UDP loop, since the last registry operation (up to MaxPicks
\* of them)
RunOps == {"NextAddrs", "runTCP", "connectTCP", "runUDP"}

RunRet(op, name, err, list) ==
    LET carry == IF ret.op \in RunOps /\ ret.name = name THEN ret.log ELSE <<>>
    IN [Ret(op, name, err) EXCEPT
          !.log = IF list = <<>> \/ Len(carry) >= MaxPicks THEN carry
                  ELSE Append(carry, list[1].Name)]

\* Service.NextAddrs: the balancer is consulted (as ServeHTTP does)
DoNextAddrs(name) ==
    /\ name \in DOMAIN svcs
    /\ LET r == next(svcs[name])
       IN /\ svcs' = [svcs EXCEPT ![name] = r.s]
          /\ ret' = RunRet("NextAddrs", name, "nil", r.list)
    /\ UNCHANGED <<vhosts, cfg, loops, orphans, conns, httpsRedirect, flows, tasks, store>>

\* NextAddrs, with the whole list the balancer gave kept in ret
DoNextAddrsList(name) ==
    /\ name \in DOMAIN svcs
    /\ LET r == next(svcs[name])
       IN /\ svcs' = [svcs EXCEPT ![name] = r.s]
          /\ ret' = [list |-> r.list] @@ Ret("NextAddrs", name, "nil")
    /\ UNCHANGED <<vhosts, cfg, loops, orphans, conns, httpsRedirect, flows, tasks, store>>

\* Service.ServeHTTP for a request r: a request handed to the reverse proxy
\* consults the balancer (NextAddrs); ret keeps the request, the answer and the
\* list the proxy got
DoServeHTTP(name, r) ==
    /\ name \in DOMAIN svcs
    /\ LET resp == ServeHTTP(svcs[name], r)
           nx == next(svcs[name])
       IN /\ svcs' = IF resp.proxied THEN [svcs EXCEPT ![name] = nx.s] ELSE svcs
          /\ ret' = [req |-> r, resp |-> resp, list |-> IF resp.proxied THEN nx.list ELSE <<>>]
                    @@ Ret("ServeHTTP", name, "nil")
    /\ UNCHANGED <<vhosts, cfg, loops, orphans, conns, httpsRedirect, flows, tasks, store>>

\* Service.Available
DoAvailable(name) ==
    /\ name \in DOMAIN svcs
    /\ ret' = [Ret("Available", name, "nil") EXCEPT !.n = Available(svcs[name])]
    /\ UNCHANGED <<svcs, vhosts, cfg, loops, orphans, conns, httpsRedirect, flows, tasks, store>>

\* the call s.next() that NextAddrs and the connection handlers make, without
\* the lock of the service held by the caller; ret keeps the last-served index
\* and the length of the list the call found, and the indexes it read
DoNext(name) ==
    /\ name \in DOMAIN svcs
    /\ LET r == next(svcs[name])
       IN /\ svcs' = [svcs EXCEPT ![name] = r.s]
          /\ ret' = [list |-> r.list, at |-> r.at, lastBackend |-> svcs[name].lastBackend,
                     len |-> Len(svcs[name].Backends)] @@ Ret("next", name, "nil")
    /\ UNCHANGED <<vhosts, cfg, loops, orphans, conns, httpsRedirect, flows, tasks, store>>

NoRef == [Name |-> "", id |-> 0]

\* the loop l with its position changed
LoopAt(l, pc) == (loops \ {l}) \cup {[l EXCEPT !.pc = pc]}

\* Service.runTCP, one round of the loop l: Accept returns the closed-listener
\* error (the loop returns), a temporary error (it goes on), or a connection,
\* for which connectTCP is started and asks the balancer for its list.
runTCP(l, ev) ==
    /\ l \in loops /\ l.net = "tcp" /\ l.pc = "wait"
    /\ \/ /\ ev = "closed" /\ l.closed
          /\ loops' = LoopAt(l, "done")
          /\ ret' = RunRet("runTCP", l.svc, ev, <<>>)
          /\ UNCHANGED <<svcs, conns>>
       \/ /\ ev = "temporary" /\ ~l.closed
          /\ ret' = RunRet("runTCP", l.svc, ev, <<>>)
          /\ UNCHANGED <<svcs, loops, conns>>
       \/ /\ ev = "conn" /\ ~l.closed
          /\ l.svc \in DOMAIN svcs
          /\ Cardinality(conns) < MaxConns
          /\ LET r == next(svcs[l.svc])
             IN /\ svcs' = [svcs EXCEPT ![l.svc] = r.s]
                /\ conns' = conns \cup
                      {[id |-> Cardinality(conns) + 1, svc |-> l.svc, order |-> r.list,
                        idx |-> 1, failed |-> <<>>, to |-> NoRef,
                        state |-> IF r.list = <<>> THEN "closed" ELSE "dialing"]}
                /\ ret' = RunRet("runTCP", l.svc, ev, <<>>)
          /\ UNCHANGED loops
    /\ UNCHANGED <<vhosts, cfg, orphans, httpsRedirect, flows, tasks, store>>

\* mutant: a failed dial that gives the connection up
dialFailedGivingUp(c) ==
    [c EXCEPT !.failed = Append(@, c.order[c.idx]),
              !.idx = @ + 1,
              !.state = "closed"]

\* connectTCP after a failed dial of c.order[c.idx]: on to the next backend, or,
\* past the last one, the client connection is closed
dialFailed(c) ==
    [c EXCEPT !.failed = Append(@, c.order[c.idx]),
              !.idx = @ + 1,
              !.state = IF c.idx = Len(c.order) THEN "closed" ELSE "dialing"]

\* the Errors counter of the Backend object a reference names is incremented, if
\* a registered service still lists the object
CountError(sn, ref) ==
    IF sn \in DOMAIN svcs
    THEN [svcs EXCEPT ![sn].Backends =
             [i \in DOMAIN @ |-> IF Ref(@[i]) = ref THEN [@[i] EXCEPT !.Errors = @ + 1]
                                 ELSE @[i]]]
    ELSE svcs

\* Service.connectTCP, one dial of the handler of connection c: ok is whether
\* the dial of the backend succeeded
connectTCP(c, ok) ==
    /\ c \in conns /\ c.state = "dialing"
    /\ IF ok
       THEN /\ conns' = (conns \ {c}) \cup {[c EXCEPT !.state = "proxied", !.to = c.order[c.idx]]}
            /\ UNCHANGED svcs
       ELSE /\ conns' = (conns \ {c}) \cup {dialFailed(c)}
            /\ svcs' = CountError(c.svc, c.order[c.idx])
    /\ ret' = [RunRet("connectTCP", c.svc, IF ok THEN "proxied" ELSE "dialFailed", <<>>)
                 EXCEPT !.backend = c.order[c.idx].Name, !.n = c.id]
    /\ UNCHANGED <<vhosts, cfg, loops, orphans, httpsRedirect, flows, tasks, store>>

\* The next action is the round of the receive loop as the loop and the balancer
\* see it; runUDPFrom is the same round with the upstream socket of the datagram
\* and its reply task followed in flows.
\* Service.runUDP, one round of the loop l: ReadFromUDP returns the
\* closed-listener error (isClosedError holds, so there is no break; nothing was
\* read, so the loop goes on), another error (break), an empty datagram (the
\* loop goes on), or a datagram: the balancer picks its backend, and the round
\* ends with the datagram dropped (no backend, or the dial of the upstream
\* socket failed), with a failed write (break), or with the datagram sent.
runUDP(l, ev) ==
    /\ l \in loops /\ l.net = "udp" /\ l.pc = "wait"
    /\ \/ /\ ev = "closed" /\ l.closed
          /\ ret' = RunRet("runUDP", l.svc, ev, <<>>)
          /\ UNCHANGED <<svcs, loops>>
       \/ /\ ev = "error" /\ ~l.closed
          /\ loops' = LoopAt(l, "done")
          /\ ret' = RunRet("runUDP", l.svc, ev, <<>>)
          /\ UNCHANGED svcs
       \/ /\ ev = "empty" /\ ~l.closed
          /\ ret' = RunRet("runUDP", l.svc, ev, <<>>)
          /\ UNCHANGED <<svcs, loops>>
       \/ /\ ev \in {"dropped", "writeFailed", "sent"} /\ ~l.closed
          /\ l.svc \in DOMAIN svcs
          /\ LET r == udpRoundRobin(svcs[l.svc])
             IN /\ r.list = <<>> => ev = "dropped"
                /\ svcs' = [svcs EXCEPT ![l.svc] = r.s]
                /\ loops' = IF ev = "writeFailed" THEN LoopAt(l, "done") ELSE loops
                /\ ret' = RunRet("runUDP", l.svc, ev, r.list)
    /\ UNCHANGED <<vhosts, cfg, orphans, conns, httpsRedirect, flows, tasks, store>>

\* the UDPProxy runUDP builds for a datagram: its connection-tracking table
\* (client key -> upstream socket) is made anew with it
NewUDPProxy(l, backend) ==
    [listener |-> l.svc, backendAddr |-> backend, connTrackTable |-> <<>>]

\* the flow of a datagram whose upstream socket was dialed: the socket is stored
\* under the client key in the table of the proxy and the reply task started
NewFlow(id, proxy, from) ==
    [id |-> id, svc |-> proxy.listener, key |-> from, to |-> proxy.backendAddr,
     table |-> MapPut(proxy.connTrackTable, from, id),
     sock |-> "open", closes |-> 0, task |-> "reading", delivered |-> 0]

\* Service.runUDP, one round of the loop l for a datagram of the client from:
\* as runUDP, and for a datagram that has a backend the key of the client is
\* looked up in the table of the proxy; on a miss the upstream socket is dialed
\* (a failed dial drops the datagram), stored, and its reply task started.
runUDPFrom(l, from, ev) ==
    /\ l \in loops /\ l.net = "udp" /\ l.pc = "wait"
    /\ \/ /\ ev = "closed" /\ l.closed
          /\ ret' = [key |-> from, hit |-> FALSE] @@ RunRet("runUDP", l.svc, ev, <<>>)
          /\ UNCHANGED <<svcs, loops, flows, tasks>>
       \/ /\ ev = "error" /\ ~l.closed
          /\ loops' = LoopAt(l, "done")
          /\ ret' = [key |-> from, hit |-> FALSE] @@ RunRet("runUDP", l.svc, ev, <<>>)
          /\ UNCHANGED <<svcs, flows, tasks>>
       \/ /\ ev = "empty" /\ ~l.closed
          /\ ret' = [key |-> from, hit |-> FALSE] @@ RunRet("runUDP", l.svc, ev, <<>>)
          /\ UNCHANGED <<svcs, loops, flows, tasks>>
       \/ /\ ev \in {"dropped", "writeFailed", "sent"} /\ ~l.closed
          /\ l.svc \in DOMAIN svcs
          /\ LET r == udpRoundRobin(svcs[l.svc])
                 proxy == NewUDPProxy(l, IF r.list = <<>> THEN NoRef ELSE r.list[1])
                 hit == from \in DOMAIN proxy.connTrackTable
                 dialed == r.list # <<>> /\ ~hit /\ ev # "dropped"
             IN /\ r.list = <<>> => ev = "dropped"
                /\ hit => ev # "dropped"
                /\ dialed => Cardinality(flows) < MaxFlows
                /\ svcs' = [svcs EXCEPT ![l.svc] = r.s]
                /\ flows' = IF dialed
                            THEN flows \cup {NewFlow(Cardinality(flows) + 1, proxy, from)}
                            ELSE flows
                /\ loops' = IF ev = "writeFailed" THEN LoopAt(l, "done") ELSE loops
                /\ ret' = [key |-> from, hit |-> hit] @@ RunRet("runUDP", l.svc, ev, r.list)
    /\ UNCHANGED <<vhosts, cfg, orphans, conns, httpsRedirect, tasks, store>>

\* the body of the loop of Service.replyLoop for one Read of the upstream
\* socket: ECONNREFUSED is read again and an empty datagram leaves the loop
\* running; a datagram is written to the client and the function returns,
\* whether the write failed or not; any other error of Read (the deadline
\* among them) returns.
replyRead(f, ev) ==
    [f EXCEPT !.delivered = IF ev = "datagram" THEN @ + 1 ELSE @,
              !.task = IF ev \in {"refused", "empty"} THEN "reading" ELSE "returned"]

\* a deferred function that closes the socket and leaves the key in the table
replyDeferredKeepingKey(f) ==
    [f EXCEPT !.sock = "closed", !.closes = @ + 1, !.task = "ended"]

\* the deferred function of Service.replyLoop: the key is deleted from the table
\* of the proxy, then the upstream socket closed
replyDeferred(f) ==
    [f EXCEPT !.table = MapDelete(@, f.key),
              !.sock = "closed", !.closes = @ + 1, !.task = "ended"]

\* Service.replyLoop, one Read of the reply task of flow f and what follows it
replyLoop(f, ev) ==
    /\ f \in flows /\ f.task = "reading"
    /\ LET g == replyRead(f, ev)
       IN flows' = (flows \ {f}) \cup {IF g.task = "returned" THEN replyDeferred(g) ELSE g}
    /\ ret' = [flow |-> f.id] @@ Ret("replyLoop", f.svc, ev)
    /\ UNCHANGED <<svcs, vhosts, cfg, loops, orphans, conns, httpsRedirect, tasks, store>>

DoUpdateConfig(c, envFail, ord) ==
    \E r \in {UpdateConfig(Registry, c, httpsRedirect, envFail, ord)} :
       /\ SetRegistry(r.W)
       /\ ret' = [Ret("UpdateConfig", "", IF r.panic THEN "panic"
                                          ELSE IF Len(r.errors) = 0 THEN "nil" ELSE "multiError")
                    EXCEPT !.errors = r.errors, !.log = r.log, !.n = Len(c.Services),
                           !.names = {c.Services[i].Name : i \in DOMAIN c.Services}]
       /\ UNCHANGED <<conns, httpsRedirect, flows, tasks, store>>

\* UpdateConfig, with the submitted config kept in ret
DoUpdateConfigWith(c, envFail, ord) ==
    \E r \in {UpdateConfig(Registry, c, httpsRedirect, envFail, ord)} :
       /\ SetRegistry(r.W)
       /\ ret' = [cfg |-> c] @@
                 [Ret("UpdateConfig", "", IF r.panic THEN "panic"
                                          ELSE IF Len(r.errors) = 0 THEN "nil" ELSE "multiError")
                    EXCEPT !.errors = r.errors, !.log = r.log, !.n = Len(c.Services),
                           !.names = {c.Services[i].Name : i \in DOMAIN c.Services}]
       /\ UNCHANGED <<conns, httpsRedirect, flows, tasks, store>>

----------------------------------------------------------------------------
\* The locks.  A caller of the registry is followed through the locks it takes
\* and the accesses it makes of the registry's maps and global defaults.

RegistryLock == [kind |-> "Registry", name |-> "", host |-> 0]
ServiceLock(n) == [kind |-> "Service", name |-> n, host |-> 0]
VHostLock(h) == [kind |-> "VirtualHost", name |-> "", host |-> h]
NoLock == [kind |-> "", name |-> "", host |-> 0]

\* s.Lock() / s.Unlock() and a read or write of a field of the registry
LockEv(l) == [act |-> "Lock", lock |-> l, on |-> ""]
UnlockEv(l) == [act |-> "Unlock", lock |-> l, on |-> ""]
ReadEv(d) == [act |-> "read", lock |-> NoLock, on |-> d]
WriteEv(d) == [act |-> "write", lock |-> NoLock, on |-> d]

\* a method of Service that locks the service for its body: Config,
\* UpdateConfig, add, remove, start, stop, Available
ServiceLocked(n) == <<LockEv(ServiceLock(n)), UnlockEv(ServiceLock(n))>>

\* VirtualHost.Len
VHostLenEvents(h) == <<LockEv(VHostLock(h)), UnlockEv(VHostLock(h))>>

\* VirtualHost.Add: svc.Config() is called, for the log, when the service is
\* not yet in the list
VHostAddEvents(v, h, n) ==
    <<LockEv(VHostLock(h))>>
    \o (IF \E i \in DOMAIN v.services : v.services[i] = n THEN <<>> ELSE ServiceLocked(n))
    \o <<UnlockEv(VHostLock(h))>>

\* VirtualHost.Remove: svc.Config() is called, for the log, when the service
\* is in the list
VHostRemoveEvents(v, h, n) ==
    <<LockEv(VHostLock(h))>>
    \o (IF IndexOf(v.services, n) = 0 THEN <<>> ELSE ServiceLocked(n))
    \o <<UnlockEv(VHostLock(h))>>

\* the turns i of the loop of VirtualHost.Service that find a service with a
\* backend available, Available being asked of the services W registers
VHostServiceHits(W, v) ==
    {i \in 1..Len(v.services) :
        Available(W.svcs[v.services[((v.last + i) % Len(v.services)) + 1]]) > 0}

\* VirtualHost.Service: the services are asked in turn, from the one after the
\* last returned, and the first with a backend available is returned and
\* remembered; when none has, the last returned is returned again
VHostService(W, v) ==
    LET n == Len(v.services)
        hits == VHostServiceHits(W, v)
        first == CHOOSE i \in hits : \A j \in hits : i <= j
        idx == (v.last + first) % n
    IN IF n = 0 THEN [v |-> v, svc |-> "", asked |-> <<>>, panic |-> FALSE]
       ELSE IF hits # {}
       THEN [v |-> [v EXCEPT !.last = idx], svc |-> v.services[idx + 1],
             asked |-> [i \in 1..first |-> v.services[((v.last + i) % n) + 1]],
             panic |-> FALSE]
       ELSE [v |-> v, svc |-> IF v.last < n THEN v.services[v.last + 1] ELSE "",
             asked |-> [i \in 1..n |-> v.services[((v.last + i) % n) + 1]],
             panic |-> v.last >= n]

\* the events of a list of calls, one after the other
RECURSIVE Flatten(_)
Flatten(ss) == IF ss = <<>> THEN <<>> ELSE Head(ss) \o Flatten(Tail(ss))

\* VirtualHost.Service: Available locks each service it is asked of
VHostServiceEvents(W, v, h) ==
    LET r == VHostService(W, v)
    IN <<LockEv(VHostLock(h))>>
       \o Flatten([i \in DOMAIN r.asked |-> ServiceLocked(r.asked[i])])
       \o <<UnlockEv(VHostLock(h))>>

\* ServiceRegistry.GetVHostService
GetVHostService(W, h) ==
    IF h \notin DOMAIN W.vhosts THEN [W |-> W, err |-> "nil", svc |-> ""]
    ELSE LET r == VHostService(W, W.vhosts[h])
         IN [W |-> [W EXCEPT !.vhosts[h] = r.v],
             err |-> IF r.panic THEN "panic" ELSE "nil", svc |-> r.svc]

GetVHostServiceEvents(W, h) ==
    <<ReadEv("vhosts")>>
    \o (IF h \in DOMAIN W.vhosts THEN VHostServiceEvents(W, W.vhosts[h], h) ELSE <<>>)

\* ServiceRegistry.GetService
GetServiceEvents(W, n) == <<ReadEv("svcs")>>

\* the loop of AddService and of updateVHosts over the names to register under
RECURSIVE addVHostsEvents(_, _, _, _)
addVHostsEvents(vh, names, i, svcName) ==
    IF i > Len(names) THEN <<>>
    ELSE LET known == names[i] \in DOMAIN vh
             v == IF known THEN vh[names[i]] ELSE NewVirtualHost
         IN <<ReadEv("vhosts")>>
            \o (IF known THEN <<>> ELSE <<WriteEv("vhosts")>>)
            \o VHostAddEvents(v, names[i], svcName)
            \o addVHostsEvents(MapPut(vh, names[i], VHostAdd(v, svcName)), names, i + 1, svcName)

\* ServiceRegistry.AddService: the duplicate test, the defaults, NewService
\* (an add per backend of the config), start, and the registering
AddServiceEvents(W, svcCfg0, envFail) ==
    LET svcCfg == ServiceSetDefaults(setServiceDefaults(W.cfg, svcCfg0))
        fe == filterEmpty(svcCfg.VirtualHosts)
    IN <<ReadEv("svcs")>>
       \o (IF svcCfg0.Name \in DOMAIN W.svcs THEN <<>>
           ELSE <<ReadEv("cfg")>>
                \o Flatten([i \in DOMAIN svcCfg.Backends |-> ServiceLocked(svcCfg.Name)])
                \o ServiceLocked(svcCfg.Name)
                \o (IF envFail THEN <<>>
                    ELSE <<WriteEv("svcs")>>
                         \o addVHostsEvents(W.vhosts, SubSeq(fe.arr, 1, fe.n), 1, svcCfg.Name)))

\* the ascending list of the elements of a set of numbers
RECURSIVE Ascending(_)
Ascending(S) ==
    IF S = {} THEN <<>>
    ELSE LET x == CHOOSE x \in S : \A y \in S : x <= y
         IN <<x>> \o Ascending(S \ {x})

\* ServiceRegistry.RemoveService: the service is deleted and stopped; for each
\* vhost, Remove, the scan of the services left, and the delete
RemoveServiceEvents(W, name) ==
    LET rest == MapDelete(W.svcs, name)
        hosts == Ascending(DOMAIN W.vhosts)
        keep(h) == \E t \in DOMAIN rest : h \in SeqToSet(rest[t].VirtualHosts)
    IN <<ReadEv("svcs")>>
       \o (IF name \notin DOMAIN W.svcs THEN <<>>
           ELSE <<WriteEv("svcs")>> \o ServiceLocked(name)
                \o Flatten([i \in DOMAIN hosts |->
                       VHostRemoveEvents(W.vhosts[hosts[i]], hosts[i], name)
                       \o <<ReadEv("svcs")>>
                       \o (IF keep(hosts[i]) THEN <<>> ELSE <<WriteEv("vhosts")>>)]))

\* the removal loop of updateVHosts, up to the name with no entry in the table
RECURSIVE removeVHostsEvents(_, _, _, _)
removeVHostsEvents(vh, names, i, svcName) ==
    IF i > Len(names) THEN <<>>
    ELSE IF names[i] \notin DOMAIN vh THEN <<ReadEv("vhosts")>>
    ELSE LET v == VHostRemove(vh[names[i]], svcName)
             gone == Len(v.services) = 0
         IN <<ReadEv("vhosts")>>
            \o VHostRemoveEvents(vh[names[i]], names[i], svcName)
            \o VHostLenEvents(names[i])
            \o (IF gone THEN <<WriteEv("vhosts")>> ELSE <<>>)
            \o removeVHostsEvents(IF gone THEN MapDelete(vh, names[i])
                                          ELSE MapPut(vh, names[i], v),
                                  names, i + 1, svcName)

\* ServiceRegistry.updateVHosts
updateVHostsEvents(vh, service, newHosts, alias) ==
    LET oldHosts == SortStrings(service.VirtualHosts)
        newSorted == IF alias THEN SortStrings(SubSeq(oldHosts, 1, Len(newHosts)))
                              ELSE SortStrings(newHosts)
        d == diffHosts(oldHosts, newSorted, 1, 1, <<>>, <<>>)
        r == removeVHosts(vh, d.remove, 1, service.Name)
    IN removeVHostsEvents(vh, d.remove, 1, service.Name)
       \o (IF r.panic THEN <<>> ELSE addVHostsEvents(r.vhosts, d.add, 1, service.Name))

\* the first loop of UpdateService: a changed or new backend is a remove and
\* an add of the service, up to the add that panics
RECURSIVE updateBackendsEvents(_, _, _, _, _)
updateBackendsEvents(s, curCfgs, cur, newBs, i) ==
    IF i > Len(newBs) THEN <<>>
    ELSE LET nb == newBs[i]
             removed == remove(s, nb.Name).s
             backend == NewBackend(nb, FreshId(s.Name, nb.Name))
         IN IF nb.Name \in cur /\ BackendEqual(BackendCfgNamed(curCfgs, nb.Name), nb)
            THEN updateBackendsEvents(s, curCfgs, cur \ {nb.Name}, newBs, i + 1)
            ELSE ServiceLocked(s.Name) \o ServiceLocked(s.Name)
                 \o (IF addPanics(removed, backend) THEN <<>>
                     ELSE updateBackendsEvents(add(removed, backend),
                                               curCfgs, cur \ {nb.Name}, newBs, i + 1))

\* ServiceRegistry.UpdateService: Config, UpdateConfig, the two loops over the
\* backends, and updateVHosts when the config differs
UpdateServiceEvents(W, newCfg0, ord) ==
    IF newCfg0.Name \notin DOMAIN W.svcs THEN <<ReadEv("svcs")>>
    ELSE
    LET service == W.svcs[newCfg0.Name]
        currentCfg == config(service)
        newCfg == Merge(currentCfg, newCfg0)
        alias == newCfg0.VHNil
        u == ServiceUpdateConfig(service, newCfg)
        names == {currentCfg.Backends[k].Name : k \in DOMAIN currentCfg.Backends}
        ub == updateBackends(u.s, currentCfg.Backends, names, newCfg.Backends, 1)
        withBackends == removeLeftOver(ub.s, ub.cur, ord, 1)
        sortedVH == SortStrings(service.VirtualHosts)
        sorted == [withBackends EXCEPT !.VirtualHosts = sortedVH]
        other == IF alias THEN [newCfg EXCEPT !.VirtualHosts = sortedVH] ELSE newCfg
        pages == [sorted EXCEPT !.errPagesCfg = newCfg.ErrorPages]
        fe == filterEmpty(other.VirtualHosts)
        filtered == IF alias THEN [pages EXCEPT !.VirtualHosts = fe.arr] ELSE pages
    IN <<ReadEv("svcs")>> \o ServiceLocked(service.Name) \o ServiceLocked(service.Name)
       \o (IF u.err # "nil" THEN <<>>
           ELSE updateBackendsEvents(u.s, currentCfg.Backends, names, newCfg.Backends, 1)
                \o (IF ub.panic THEN <<>>
                    ELSE Flatten([i \in DOMAIN ord |->
                            IF ord[i] \in ub.cur THEN ServiceLocked(service.Name) ELSE <<>>])
                         \o (IF ServiceEqual(currentCfg, other) THEN <<>>
                             ELSE updateVHostsEvents(W.vhosts, filtered,
                                                     SubSeq(fe.arr, 1, fe.n), alias))))

\* the fields of the global defaults UpdateConfig writes for a submitted
\* config, in the order it writes them
GlobalFieldOrder ==
    <<"Balance", "CheckInterval", "Fall", "Rise", "ClientTimeout", "ServerTimeout",
      "DialTimeout">>

GlobalWrites(c, flag) ==
    SelectSeq(GlobalFieldOrder, LAMBDA f : c[f] # ZeroConfig[f])
    \o (IF flag THEN <<"HTTPSRedirect">> ELSE <<>>)

\* the lock is held by no caller
Free(l) == \A t \in Tasks : l \notin SeqToSet(tasks[t].held)

\* what ret records of a step of a caller: the caller, the lock taken or
\* released or the field accessed, and the locks the caller held before it
StepRet(t, call, e) ==
    [task |-> t, event |-> e, held |-> tasks[t].held] @@ Ret("step", call, "nil")

\* a caller enters a method of the registry that locks it: s.Lock() is taken,
\* and what the method does to the registry is applied; the locks it takes and
\* the accesses it makes on the way are left to be followed, with the deferred
\* s.Unlock() last; ret keeps what the method will return.  A call that panics
\* is not followed.
Section(t, call, r, events, onward) ==
    /\ tasks[t].trace = <<>>
    /\ Free(RegistryLock)
    /\ r.err # "panic"
    /\ SetRegistry(r.W)
    /\ tasks' = [tasks EXCEPT ![t] = [onward EXCEPT !.trace = events \o <<UnlockEv(RegistryLock)>>,
                                                  !.held = <<RegistryLock>>]]
    /\ ret' = [StepRet(t, call, LockEv(RegistryLock)) EXCEPT !.err = r.err]
    /\ UNCHANGED <<conns, httpsRedirect, flows, store>>

\* a call of a caller that is in no call
Enter(t, call, arg) ==
    /\ ~tasks[t].uc
    /\ \/ /\ call = "AddService"
          /\ Section(t, call, AddService(Registry, arg, FALSE),
                     AddServiceEvents(Registry, arg, FALSE), tasks[t])
       \/ /\ call = "RemoveService"
          /\ Section(t, call, RemoveService(Registry, arg.Name),
                     RemoveServiceEvents(Registry, arg.Name), tasks[t])
       \/ /\ call = "GetVHostService"
          /\ Section(t, call, GetVHostService(Registry, arg.VirtualHosts[1]),
                     GetVHostServiceEvents(Registry, arg.VirtualHosts[1]), tasks[t])

\* the next lock, unlock or access of a caller inside a method of the
\* registry; Lock waits for the lock to be free
Step(t) ==
    /\ tasks[t].trace # <<>>
    /\ LET e == Head(tasks[t].trace)
           held == tasks[t].held
       IN /\ e.act = "Lock" => Free(e.lock)
          /\ tasks' = [tasks EXCEPT ![t].trace = Tail(@),
                          ![t].held = IF e.act = "Lock" THEN Append(held, e.lock)
                                      ELSE IF e.act = "Unlock"
                                      THEN SelectSeq(held, LAMBDA l : l # e.lock)
                                      ELSE held]
          /\ ret' = StepRet(t, "", e)
    /\ UNCHANGED <<svcs, vhosts, cfg, loops, orphans, conns, httpsRedirect, flows, store>>

\* ServiceRegistry.UpdateConfig is entered: no lock is taken
UpdateConfigBegin(t, c) ==
    /\ ~tasks[t].uc /\ tasks[t].trace = <<>>
    /\ tasks' = [tasks EXCEPT ![t] = [IdleTask EXCEPT !.uc = TRUE, !.c = c, !.i = 1,
                                         !.fields = GlobalWrites(c, httpsRedirect)]]
    /\ ret' = Ret("UpdateConfig", "", "nil")
    /\ UNCHANGED <<svcs, vhosts, cfg, loops, orphans, conns, httpsRedirect, flows, store>>

\* UpdateConfig sets the next global default its config carries
UpdateConfigGlobal(t) ==
    /\ tasks[t].uc /\ tasks[t].fields # <<>>
    /\ LET f == Head(tasks[t].fields)
       IN cfg' = [cfg EXCEPT ![f] = IF f = "HTTPSRedirect" THEN TRUE ELSE tasks[t].c[f]]
    /\ tasks' = [tasks EXCEPT ![t].fields = Tail(@)]
    /\ ret' = StepRet(t, "UpdateConfig", WriteEv("cfg"))
    /\ UNCHANGED <<svcs, vhosts, loops, orphans, conns, httpsRedirect, flows, store>>

\* UpdateConfig, the next service of its config: Registry.GetService, and then
\* Registry.AddService or Registry.UpdateService by what GetService returned
UpdateConfigService(t) ==
    /\ tasks[t].uc /\ tasks[t].fields = <<>> /\ tasks[t].i <= Len(tasks[t].c.Services)
    /\ LET svc == tasks[t].c.Services[tasks[t].i]
           after == [tasks[t] EXCEPT !.i = @ + 1, !.found = ""]
       IN \/ /\ tasks[t].found = ""
             /\ Section(t, "GetService", [W |-> Registry, err |-> "nil"],
                        GetServiceEvents(Registry, svc.Name),
                        [tasks[t] EXCEPT !.found =
                            IF svc.Name \in DOMAIN svcs THEN "yes" ELSE "no"])
          \/ /\ tasks[t].found = "no"
             /\ Section(t, "AddService", AddService(Registry, svc, FALSE),
                        AddServiceEvents(Registry, svc, FALSE), after)
          \/ /\ tasks[t].found = "yes"
             /\ Section(t, "UpdateService", UpdateService(Registry, svc, <<"b1", "b2">>),
                        UpdateServiceEvents(Registry, svc, <<"b1", "b2">>), after)

\* UpdateConfig returns, past the last service of its config
UpdateConfigEnd(t) ==
    /\ tasks[t].uc /\ tasks[t].fields = <<>> /\ tasks[t].trace = <<>>
    /\ tasks[t].i > Len(tasks[t].c.Services)
    /\ tasks' = [tasks EXCEPT ![t] = IdleTask]
    /\ ret' = Ret("UpdateConfig", "", "returned")
    /\ UNCHANGED <<svcs, vhosts, cfg, loops, orphans, conns, httpsRedirect, flows, store>>

----------------------------------------------------------------------------
\* The registry with virtual hosts: two services, hostnames "", "a" and "b"

Names == {"s1", "s2"}
Hosts == {0, 1, 2}
BNames == {"b1", "b2"}

\* The configs submitted: s1 with every list of hostnames (or none, the nil
\* slice), s2 with the plain lists that make it share hostnames with s1; an
\* update may also set Fall, which makes a config with no list differ.
VHostLists(n) ==
    IF n = "s1" THEN SeqsUpTo(Hosts, MaxVHosts) ELSE {<<1>>, <<2>>, <<1, 2>>}

VHostConfigs ==
    {[ZeroServiceConfig(n) EXCEPT !.VHNil = FALSE, !.VirtualHosts = v] :
        n \in Names, v \in VHostLists("s1") \cup VHostLists("s2")}
    \cup {[ZeroServiceConfig(n) EXCEPT !.Fall = f] : n \in Names, f \in {0, 3}}

VHostInputs == {c \in VHostConfigs : c.VHNil \/ c.VirtualHosts \in VHostLists(c.Name)}

NextVH ==
    \/ \E c \in VHostInputs : DoAddService(c, FALSE)
    \/ \E c \in VHostInputs : DoUpdateService(c, <<"b1", "b2">>)
    \/ \E n \in Names : DoRemoveService(n)

SpecVH == Init /\ [][NextVH]_vars

----------------------------------------------------------------------------
\* Properties of the registry with virtual hosts (SpecVH)

RegistryVars == <<svcs, vhosts, cfg, loops, orphans>>

Listed(h) == \E n \in DOMAIN svcs : h \in SeqToSet(svcs[n].VirtualHosts)

\* C1: after any operation that returned, a (non-empty) hostname is a key of the
\* vhost table if and only if at least one registered service lists it in its
\* VirtualHosts.
C1_VHostKeyIffListed ==
    ret.err # "panic" =>
        \A h \in Hosts \ {0} : (h \in DOMAIN vhosts) <=> Listed(h)

\* C3: AddService with a name that is already registered returns
\* ErrDuplicateService and leaves the registry unchanged: services, vhost table,
\* defaults, listeners and health-check tasks.
C3_DuplicateServiceRejected ==
    [][(ret'.op = "AddService" /\ ret'.name \in DOMAIN svcs)
          => (ret'.err = "ErrDuplicateService" /\ UNCHANGED RegistryVars)]_vars

C3_Witness ==
    /\ ret.op = "AddService" /\ ret.err = "ErrDuplicateService"
    /\ ret.name \in DOMAIN svcs /\ vhosts # <<>>

\* C8: a successful RemoveService(name) takes the service out of the registry and
\* out of every vhost's service list, while every vhost another registered
\* service lists stays in the table with that service still in its list (when it
\* was in it); RemoveService of an unknown name returns ErrNoService and changes
\* nothing.
C8_RemoveServiceDetaches ==
    [][ret'.op = "RemoveService" =>
         IF ret'.name \in DOMAIN svcs
         THEN /\ ret'.err = "nil"
              /\ svcs' = MapDelete(svcs, ret'.name)
              /\ \A h \in DOMAIN vhosts' : ret'.name \notin SeqToSet(vhosts'[h].services)
              /\ \A t \in DOMAIN svcs', h \in DOMAIN vhosts :
                    h \in SeqToSet(svcs'[t].VirtualHosts)
                       => /\ h \in DOMAIN vhosts'
                          /\ t \in SeqToSet(vhosts[h].services)
                                => t \in SeqToSet(vhosts'[h].services)
         ELSE ret'.err = "ErrNoService" /\ UNCHANGED RegistryVars]_vars

C8_Witness ==
    /\ ret.op = "RemoveService" /\ ret.err = "nil"
    /\ \E t \in DOMAIN svcs, h \in DOMAIN vhosts :
          /\ h \in SeqToSet(svcs[t].VirtualHosts)
          /\ t \in SeqToSet(vhosts[h].services)

----------------------------------------------------------------------------
\* The registry with listening addresses and client timeouts (SpecCfg): s1 is
\* created and updated with every combination of an address (none, "x", "y"), a
\* client timeout and Fall, with or without a hostname and a backend; s2 holds
\* the address "y".

CfgBackend == [ZeroBackendConfig("b1") EXCEPT !.Addr = "u1"]

CfgInputs ==
    {[ZeroServiceConfig("s1") EXCEPT !.Addr = a, !.ClientTimeout = ct, !.Fall = f] :
        a \in {"", "x", "y"}, ct \in {0, 1000, DefaultTimeout}, f \in {0, 3}}
    \cup {[ZeroServiceConfig("s1") EXCEPT !.Addr = a, !.VHNil = FALSE, !.VirtualHosts = <<1>>,
                                         !.BackendsNil = FALSE, !.Backends = <<CfgBackend>>] :
             a \in {"", "x"}}
    \cup {[ZeroServiceConfig("s2") EXCEPT !.Addr = "y"]}

NextCfg ==
    \/ \E c \in CfgInputs : DoAddService(c, FALSE)
    \/ \E c \in CfgInputs : DoUpdateService(c, <<"b1", "b2">>)
    \/ \E n \in Names : DoRemoveService(n)

SpecCfg == Init /\ [][NextCfg]_vars

\* the Addr and ClientTimeout of the merge of an update into the live service
MergedAddr(s, r) == IF r.Addr # "" THEN r.Addr ELSE s.Addr
MergedClientTimeout(s, r) ==
    IF r.ClientTimeout # 0 THEN r.ClientTimeout ELSE s.ClientTimeout \div Millisecond

\* Addr and ClientTimeout of a registered service never change
ImmutableFields ==
    \A n \in DOMAIN svcs \cap DOMAIN svcs' :
        svcs'[n].Addr = svcs[n].Addr /\ svcs'[n].ClientTimeout = svcs[n].ClientTimeout

----------------------------------------------------------------------------
\* A service and its backends (SpecBackend): s1 is created and updated with Fall
\* and Rise of 1 or of the default, backends b1 and b2 are added (again, too),
\* with or without a check address, and removed, and the health-check tasks
\* probe.

BackendSvcInputs ==
    {[ZeroServiceConfig("s1") EXCEPT !.Fall = f, !.Rise = r] : f \in {0, 1}, r \in {0, 1}}

BackendInputs ==
    {[ZeroBackendConfig(n) EXCEPT !.Addr = "u", !.CheckAddr = ca] :
        n \in BNames, ca \in {"", "c"}}

NextBackend ==
    \/ \E c \in BackendSvcInputs : DoAddService(c, FALSE)
    \/ \E c \in BackendSvcInputs : DoUpdateService(c, <<"b1", "b2">>)
    \/ \E b \in BackendInputs : DoAddBackend("s1", b)
    \/ \E bn \in BNames : DoRemoveBackend("s1", bn)
    \/ \E i \in 1..Cardinality(BNames), ok \in BOOLEAN : DoCheck("s1", i, ok)

SpecBackend == Init /\ [][NextBackend]_vars

\* the step is AddBackend for a registered service that has a backend of the
\* name at index i
AddsExisting(i) ==
    /\ ret'.op = "AddBackend"
    /\ ret'.name \in DOMAIN svcs
    /\ i \in DOMAIN svcs[ret'.name].Backends
    /\ svcs[ret'.name].Backends[i].Name = ret'.backend

\* C4 as stated: AddBackend for a service that already has a backend of the same
\* name returns a duplicate error and leaves the existing backend in place.
C4_Original ==
    [][\A i \in 1..Cardinality(BNames) :
          AddsExisting(i) => (ret'.err = "ErrDuplicateBackend" /\ svcs' = svcs)]_vars

\* C4 amended: AddBackend for a service that already has a backend of the same
\* name returns no error and replaces that backend in its place in the list by a
\* new one built from the submitted config, Up and with fresh probe streaks; the
\* old backend is stopped and gone, the other backends and the length of the list
\* are as before, so names stay unique in the list.
C4_AddBackendReplaces ==
    [][\A i \in 1..Cardinality(BNames) :
          AddsExisting(i) =>
             LET old == svcs[ret'.name].Backends
                 new == svcs'[ret'.name].Backends
             IN /\ ret'.err = "nil"
                /\ Len(new) = Len(old)
                /\ \A j \in DOMAIN old : j # i => new[j] = old[j]
                /\ new[i].Name = old[i].Name
                /\ new[i].id # old[i].id
                /\ new[i].up /\ new[i].okStreak = 0 /\ new[i].failStreak = 0
                /\ new[i].running = (new[i].CheckAddr # "")]_vars

\* a backend that was Down has been replaced, beside another backend
C4_Witness ==
    /\ ret.op = "AddBackend" /\ ret.err = "nil" /\ ret.name \in DOMAIN svcs
    /\ Len(svcs[ret.name].Backends) = 2
    /\ \E i \in DOMAIN svcs[ret.name].Backends :
          /\ svcs[ret.name].Backends[i].Name = ret.backend
          /\ svcs[ret.name].Backends[i].id # 0

\* the step is a probe, with the given result, of backend b of service n
Probed(n, b, res) ==
    ret'.op = "check" /\ ret'.name = n /\ ret'.backend = b.Name /\ ret'.err = res

----------------------------------------------------------------------------
\* The balancer (SpecRR): s1 is created as a TCP or as a UDP service, gets up to
\* three backends with weights 1, 2 or 3 right after its creation, and
\* the balancer is then asked again and again, by NextAddrs and by the datagrams
\* of the UDP loop.

RRNames == {"b0", "b1", "b2"}

RRSvcInputs == {[ZeroServiceConfig("s1") EXCEPT !.Addr = "x", !.Network = nw] : nw \in {"", "udp"}}

RRBackendInputs(nw) ==
    {[ZeroBackendConfig(b.n) EXCEPT !.Addr = "u", !.Network = nw, !.Weight = b.w] :
        b \in {[n |-> "b0", w |-> 0], [n |-> "b0", w |-> 2], [n |-> "b1", w |-> 2],
               [n |-> "b2", w |-> 3], [n |-> "b2", w |-> 0]}}

\* the backends are added right after the creation of the service
NextRR ==
    \/ \E c \in RRSvcInputs : "s1" \notin DOMAIN svcs /\ DoAddService(c, FALSE)
    \/ \E nw \in {"tcp", "udp"} : \E b \in RRBackendInputs(nw) :
          /\ ret.op \in {"AddService", "AddBackend"}
          /\ "s1" \in DOMAIN svcs /\ svcs["s1"].Network = nw
          /\ DoAddBackend("s1", b)
    \/ DoRemoveService("s1")
    \/ DoNextAddrs("s1")
    \/ \E l \in loops : \E ev \in {"closed", "error", "empty", "dropped", "writeFailed", "sent"} :
          runUDP(l, ev)

SpecRR == Init /\ [][NextRR]_vars

\* the names of a list of backends, each repeated as many times as its Weight
RECURSIVE Cycle(_, _)
Cycle(bs, i) ==
    IF i > Len(bs) THEN <<>>
    ELSE [k \in 1..bs[i].Weight |-> bs[i].Name] \o Cycle(bs, i + 1)

\* C5: the heads of the successive selections of a round-robin service, from its
\* creation on and over the list b0..bN-1 it was given, are b0 w0 times, then b1
\* w1 times, and so on cyclically, whether NextAddrs or the datagrams of the UDP
\* loop ask for them.
C5_WeightedRoundRobin ==
    \A n \in DOMAIN svcs :
       (ret.op \in {"NextAddrs", "runUDP"} /\ ret.name = n /\ Len(svcs[n].Backends) > 0) =>
          LET cyc == Cycle(svcs[n].Backends, 1)
          IN \A k \in DOMAIN ret.log : ret.log[k] = cyc[((k - 1) % Len(cyc)) + 1]

\* seven datagrams of a UDP service with weights 1, 2, 3 went to
\* b0, b1, b1, b2, b2, b2, b0
C5_Witness ==
    /\ ret.op = "runUDP" /\ ret.err = "sent"
    /\ "s1" \in DOMAIN svcs
    /\ [i \in DOMAIN svcs["s1"].Backends |-> svcs["s1"].Backends[i].Weight] = <<1, 2, 3>>
    /\ [i \in DOMAIN svcs["s1"].Backends |-> svcs["s1"].Backends[i].Name] = <<"b0", "b1", "b2">>
    /\ ret.log = <<"b0", "b1", "b1", "b2", "b2", "b2", "b0">>

----------------------------------------------------------------------------
\* The TCP path (SpecTCP): a TCP service s1 with backends b1 and b2;
\* connections are accepted and their handlers dial while backends are added
\* and replaced.

TCPSvcInput == [ZeroServiceConfig("s1") EXCEPT !.Addr = "x"]

TCPBackendInputs == {[ZeroBackendConfig(b) EXCEPT !.Addr = "u"] : b \in BNames}

NextTCP ==
    \/ DoAddService(TCPSvcInput, FALSE)
    \/ \E b \in TCPBackendInputs : DoAddBackend("s1", b)
    \/ \E l \in loops : \E ev \in {"closed", "temporary", "conn"} : runTCP(l, ev)
    \/ \E c \in conns : \E ok \in BOOLEAN : connectTCP(c, ok)

SpecTCP == Init /\ [][NextTCP]_vars

\* the connection handler of the step, before and after it
Handler(cs) == CHOOSE c \in cs : c.id = ret'.n

\* C7: a connection handler dials the backends of the list the balancer gave it
\* in that order; a connection is forwarded to one backend, the first whose dial
\* succeeded, every backend before it in the list having failed; it is closed,
\* and forwarded to none, when every dial failed or the list was empty; a failed
\* dial adds one to the Errors of the backend dialled, changes no other counter
\* and no backend's Up state, and a successful dial changes no backend.
C7_ConnectTCP ==
    [][/\ \A c \in conns' :
             /\ c.failed = SubSeq(c.order, 1, Len(c.failed))
             /\ c.state = "dialing" => (c.idx = Len(c.failed) + 1 /\ c.idx <= Len(c.order)
                                        /\ c.to = NoRef)
             /\ c.state = "proxied" => (c.idx = Len(c.failed) + 1 /\ c.to = c.order[c.idx])
             /\ c.state = "closed" => (c.failed = c.order /\ c.to = NoRef)
       /\ \A c \in conns : c.state \in {"proxied", "closed"} => c \in conns'
       /\ ret'.op = "connectTCP" =>
             LET c == Handler(conns)
                 d == Handler(conns')
                 b == c.order[c.idx]
             IN /\ ret'.backend = b.Name
                /\ d.order = c.order
                /\ \A n \in DOMAIN svcs : \A i \in DOMAIN svcs[n].Backends :
                      LET old == svcs[n].Backends[i]
                          new == svcs'[n].Backends[i]
                      IN /\ new.up = old.up
                         /\ new.Errors = IF ret'.err = "dialFailed" /\ n = c.svc /\ Ref(old) = b
                                         THEN old.Errors + 1 ELSE old.Errors
                         /\ [new EXCEPT !.Errors = 0] = [old EXCEPT !.Errors = 0]]_vars

\* a connection was forwarded to the second backend of its list after the dial
\* of the first had failed and been counted
C7_Witness ==
    /\ ret.op = "connectTCP" /\ ret.err = "proxied"
    /\ \E c \in conns :
          /\ c.id = ret.n /\ c.state = "proxied" /\ Len(c.order) = 2
          /\ c.to = c.order[2] /\ c.failed = <<c.order[1]>>
          /\ c.svc \in DOMAIN svcs
          /\ \E i \in DOMAIN svcs[c.svc].Backends :
                LET b == svcs[c.svc].Backends[i]
                IN Ref(b) = c.order[1] /\ b.Errors > 0 /\ b.up

----------------------------------------------------------------------------
\* Listeners and their loops (SpecStop): a TCP service s1, with or without a
\* backend, and a UDP service s2 are created and removed; their loops accept
\* connections, receive datagrams and meet errors.

StopSvcInputs ==
    {[ZeroServiceConfig("s1") EXCEPT !.Addr = "x"],
     [ZeroServiceConfig("s2") EXCEPT !.Addr = "y", !.Network = "udp"]}

StopBackendInput == [ZeroBackendConfig("b1") EXCEPT !.Addr = "u"]

NextStop ==
    \/ \E c \in StopSvcInputs : DoAddService(c, FALSE)
    \/ DoAddBackend("s1", StopBackendInput)
    \/ \E n \in Names : DoRemoveService(n)
    \/ \E l \in loops : \E ev \in {"closed", "temporary", "conn"} : runTCP(l, ev)
    \/ \E c \in conns : \E ok \in BOOLEAN : connectTCP(c, ok)
    \/ \E l \in loops : \E ev \in {"closed", "error", "empty", "dropped"} : runUDP(l, ev)

SpecStop == Init /\ [][NextStop]_vars

\* C9: a round of a service's accept loop or receive loop that finds the
\* listener closed ends the loop.
C9_ClosedListenerEndsLoop ==
    [][(ret'.op \in {"runTCP", "runUDP"} /\ ret'.err = "closed") =>
          \A l \in loops' : (l.svc = ret'.name /\ l.closed
                             /\ l.net = (IF ret'.op = "runTCP" THEN "tcp" ELSE "udp"))
                               => l.pc = "done"]_vars

----------------------------------------------------------------------------
\* Whole configs (SpecUC): UpdateConfig is given up to two services out of s1
\* and s2, each at its own address or at the other's, s1 also with hostnames
\* (among them the list "a", ""), s2 also on the admin port; services are
\* removed in between.

UCAddr(n, own) == IF (n = "s1") = own THEN "x" ELSE "y"

UCServices ==
    {[ZeroServiceConfig("s1") EXCEPT !.Addr = UCAddr("s1", TRUE)],
     [ZeroServiceConfig("s1") EXCEPT !.Addr = UCAddr("s1", FALSE)],
     [ZeroServiceConfig("s1") EXCEPT !.Addr = UCAddr("s1", TRUE), !.VHNil = FALSE,
                                     !.VirtualHosts = <<1, 0>>],
     [ZeroServiceConfig("s1") EXCEPT !.Addr = UCAddr("s1", TRUE), !.VHNil = FALSE,
                                     !.VirtualHosts = <<1>>],
     [ZeroServiceConfig("s2") EXCEPT !.Addr = UCAddr("s2", TRUE)],
     [ZeroServiceConfig("s2") EXCEPT !.Addr = UCAddr("s2", FALSE)],
     [ZeroServiceConfig("s2") EXCEPT !.Addr = AdminAddr]}

\* the lists name a service once
UCLists ==
    {<<>>} \cup {<<a>> : a \in UCServices}
    \cup {l \in {<<a, b>> : a, b \in UCServices} : l[1].Name # l[2].Name}

UCInputs ==
    {ZeroConfig @@ [Services |-> l] : l \in UCLists}
    \cup {[ZeroConfig EXCEPT !.Fall = 3] @@ [Services |-> <<>>]}

NextUC ==
    \/ \E c \in UCInputs : DoUpdateConfig(c, {}, <<"b1", "b2">>)
    \/ \E n \in Names : DoRemoveService(n)

SpecUC == Init /\ [][NextUC]_vars

\* a service of the list failed: it was refused for its port, or the call made
\* for it returned an error
Failed(e) == e.conflict \/ e.err # "nil"

\* C10: UpdateConfig reaches every service of cfg.Services, whatever happened to
\* the ones before it: it calls AddService for a name that is not registered and
\* UpdateService for one that is, every service that did not fail is registered
\* afterwards, and the call returns nil when no service failed and otherwise an
\* error holding the error of each service that failed.
C10_UpdateConfigProcessesAll ==
    [][ret'.op = "UpdateConfig" =>
          /\ Len(ret'.log) = ret'.n
          /\ ret'.err # "panic" =>
                /\ (ret'.err = "nil") <=> (\A i \in DOMAIN ret'.log : ~Failed(ret'.log[i]))
                /\ \A i \in DOMAIN ret'.log :
                      LET e == ret'.log[i]
                      IN /\ e.call = IF e.Name \in DOMAIN svcs THEN "UpdateService"
                                     ELSE "AddService"
                         /\ ~Failed(e) => e.Name \in DOMAIN svcs'
                         /\ e.err # "nil" => e.err \in SeqToSet(ret'.errors)]_vars

\* C11: UpdateConfig rejects a service whose Addr is on the admin listener's
\* port: the call reports the port conflict, a service of that name is not
\* registered by the call, and one that was registered is left as it was.
C11_PortConflictRejected ==
    [][ret'.op = "UpdateConfig" =>
          \A i \in DOMAIN ret'.log :
             LET e == ret'.log[i]
             IN e.conflict =>
                   /\ "PortConflict" \in SeqToSet(ret'.errors)
                   /\ e.Name \notin DOMAIN svcs => e.Name \notin DOMAIN svcs'
                   /\ e.Name \in DOMAIN svcs =>
                         /\ e.Name \in DOMAIN svcs'
                         /\ svcs'[e.Name] = svcs[e.Name]]_vars

----------------------------------------------------------------------------
\* Whole configs with global defaults (SpecGlobals): UpdateConfig is given the
\* zero globals or a global Fall of 3, and no service, one of s1 and s2, or
\* both.  s1 comes with the hostname "a" and the backend b1, or with the
\* hostname "b" and no backend list; s2 comes with the hostname "a" too, or
\* with its own Fall.

GlobalsBackend == [ZeroBackendConfig("b1") EXCEPT !.Addr = "u1", !.CheckAddr = "c"]

GlobalsServices ==
    {[ZeroServiceConfig("s1") EXCEPT !.Addr = "x", !.VHNil = FALSE, !.VirtualHosts = <<1>>,
                                     !.BackendsNil = FALSE, !.Backends = <<GlobalsBackend>>],
     [ZeroServiceConfig("s1") EXCEPT !.Addr = "x", !.VHNil = FALSE, !.VirtualHosts = <<2>>],
     [ZeroServiceConfig("s2") EXCEPT !.Addr = "y", !.VHNil = FALSE, !.VirtualHosts = <<1>>],
     [ZeroServiceConfig("s2") EXCEPT !.Addr = "y", !.Fall = 1]}

GlobalsLists ==
    {<<>>} \cup {<<a>> : a \in GlobalsServices}
    \cup {l \in {<<a, b>> : a, b \in GlobalsServices} : l[1].Name = "s1" /\ l[2].Name = "s2"}

GlobalsInputs ==
    {[ZeroConfig EXCEPT !.Fall = f] @@ [Services |-> l] : f \in {0, 3}, l \in GlobalsLists}

NextGlobals ==
    \/ \E c \in GlobalsInputs : DoUpdateConfig(c, {}, <<"b1", "b2">>)
    \/ \E n \in Names : DoRemoveService(n)
    \/ \E ok \in BOOLEAN : DoCheck("s1", 1, ok)

SpecGlobals == Init /\ [][NextGlobals]_vars

\* the hostnames whose vhost lists service n
VHostsOf(vh, n) == {h \in DOMAIN vh : n \in SeqToSet(vh[h].services)}

\* C12: UpdateConfig leaves alone every service that was registered before the
\* call and that the submitted config does not name: it is still registered,
\* with the same configuration, the same backends in the same state, and the
\* same vhost entries, also when the call changes the global defaults.
C12_UpdateConfigFrame ==
    [][ret'.op = "UpdateConfig" =>
          \A n \in DOMAIN svcs \ ret'.names :
             /\ n \in DOMAIN svcs'
             /\ svcs'[n] = svcs[n]
             /\ VHostsOf(vhosts', n) = VHostsOf(vhosts, n)
             /\ \A l \in loops : l.svc = n => l \in loops']_vars

\* s1 was created under the default Fall with a backend and a hostname it
\* shares with s2; the last call named s2 only, and the global Fall is now 3
C12_Witness ==
    /\ ret.op = "UpdateConfig" /\ ret.names = {"s2"} /\ ret.err = "nil"
    /\ cfg.Fall = 3
    /\ "s1" \in DOMAIN svcs /\ "s2" \in DOMAIN svcs
    /\ svcs["s1"].Fall = DefaultFall
    /\ Len(svcs["s1"].Backends) = 1
    /\ VHostsOf(vhosts, "s1") = {1} /\ VHostsOf(vhosts, "s2") = {1}

----------------------------------------------------------------------------
\* Updates of the settings of a service (SpecMerge): s1 is created at "x" and
\* updated with every combination of a balancing policy (none, RR, LC), a Fall,
\* a server timeout and the two flags, and with configs that set one of
\* CheckInterval, Rise and DialTimeout.

MergeInputs ==
    {[ZeroServiceConfig("s1") EXCEPT !.Addr = "x", !.Balance = b, !.Fall = f,
                                     !.ServerTimeout = st, !.HTTPSRedirect = h,
                                     !.MaintenanceMode = mm] :
        b \in {"", RoundRobin, LeastConn}, f \in {0, 3}, st \in {0, 1000},
        h \in BOOLEAN, mm \in BOOLEAN}
    \cup {[ZeroServiceConfig("s1") EXCEPT !.CheckInterval = 1000],
          [ZeroServiceConfig("s1") EXCEPT !.Rise = 3],
          [ZeroServiceConfig("s1") EXCEPT !.DialTimeout = 1000]}

NextMerge ==
    \/ \E c \in MergeInputs : DoAddService(c, FALSE)
    \/ \E c \in MergeInputs : DoUpdateServiceWith(c, <<"b1", "b2">>)

SpecMerge == Init /\ [][NextMerge]_vars

\* the value of a field after a merge: the new one when set, else the live one
Merged(new, live, zero) == IF new # zero THEN new ELSE live

\* C13: a successful UpdateService sets each field the new config sets (Balance
\* and the selection policy in use, CheckInterval, Fall, Rise, ServerTimeout,
\* DialTimeout, HTTPSRedirect, MaintenanceMode) to the new value, and every
\* field the new config leaves unset, the two flags included, keeps its live
\* value.
C13_UpdateServiceMerges ==
    [][(ret'.op = "UpdateService" /\ ret'.err = "nil") =>
          LET c == ret'.cfg
              s == svcs[c.Name]
              t == svcs'[c.Name]
          IN /\ t.Balance = Merged(c.Balance, s.Balance, "")
             /\ t.next = NextFor(t.Balance)
             /\ t.CheckInterval = Merged(c.CheckInterval, s.CheckInterval, 0)
             /\ t.Fall = Merged(c.Fall, s.Fall, 0)
             /\ t.Rise = Merged(c.Rise, s.Rise, 0)
             /\ t.ServerTimeout = Merged(c.ServerTimeout * Millisecond, s.ServerTimeout, 0)
             /\ t.DialTimeout = Merged(c.DialTimeout * Millisecond, s.DialTimeout, 0)
             /\ t.HTTPSRedirect = Merged(c.HTTPSRedirect, s.HTTPSRedirect, FALSE)
             /\ t.MaintenanceMode = Merged(c.MaintenanceMode, s.MaintenanceMode, FALSE)]_vars

----------------------------------------------------------------------------
\* Backend lists (SpecDiff): s1 is created and updated with no backend list, an
\* empty one, or a list of one or two backends out of b1 at "u1" (with the
\* weight left out or written as the default), b1 at "u2" and b2; a list may
\* name b1 twice.  Every backend has a check address, and its probes succeed or
\* fail in any order.

DiffBackends ==
    {[ZeroBackendConfig("b1") EXCEPT !.Addr = "u1", !.CheckAddr = "c"],
     [ZeroBackendConfig("b1") EXCEPT !.Addr = "u1", !.CheckAddr = "c", !.Weight = DefaultWeight],
     [ZeroBackendConfig("b1") EXCEPT !.Addr = "u2", !.CheckAddr = "c"],
     [ZeroBackendConfig("b2") EXCEPT !.Addr = "u1", !.CheckAddr = "c"]}

DiffLists ==
    {<<>>} \cup {<<a>> : a \in DiffBackends} \cup {<<a, b>> : a, b \in DiffBackends}

DiffService == [ZeroServiceConfig("s1") EXCEPT !.Addr = "x", !.Fall = 1, !.Rise = 1]

DiffInputs ==
    {DiffService} \cup {[DiffService EXCEPT !.BackendsNil = FALSE, !.Backends = l] : l \in DiffLists}

\* the orders in which the map of the left-over backends may be iterated
DiffOrders == {<<"b1", "b2">>, <<"b2", "b1">>}

NextDiff ==
    \/ \E c \in DiffInputs : DoAddService(c, FALSE)
    \/ \E c \in DiffInputs, ord \in DiffOrders : DoUpdateServiceWith(c, ord)
    \/ \E i \in 1..Cardinality(BNames), ok \in BOOLEAN : DoCheck("s1", i, ok)

SpecDiff == Init /\ [][NextDiff]_vars

\* the names of a list of backends or of backend configs
NamesOf(bs) == {bs[i].Name : i \in DOMAIN bs}

\* the config a list gives for a name, with its defaults: the last one of that
\* name
Given(bs, name) ==
    BackendSetDefaults(bs[CHOOSE i \in DOMAIN bs :
                             /\ bs[i].Name = name
                             /\ \A j \in DOMAIN bs : bs[j].Name = name => j <= i])

\* a backend as Service.add leaves a new one: Up, no probe counted, its
\* health-check task running when it has a check address
Fresh(b) ==
    /\ b.up /\ b.okStreak = 0 /\ b.failStreak = 0 /\ b.Errors = 0
    /\ b.running = (b.CheckAddr # "")

\* C14: after a successful UpdateService whose config carries a backend list,
\* the backends of the service are exactly those the list names, each once and
\* with the configuration given: a backend only in the old list is gone and its
\* task with it, a backend only in the new list is there and started, and a
\* backend whose configuration differs has been stopped and replaced by a new
\* one.  Without a backend list in the config the backends are as before.
C14_UpdateServiceBackends ==
    [][(ret'.op = "UpdateService" /\ ret'.err = "nil") =>
          LET c == ret'.cfg
              old == svcs[c.Name].Backends
              new == svcs'[c.Name].Backends
          IN /\ orphans' = orphans
             /\ IF c.BackendsNil THEN new = old
                ELSE /\ NamesOf(new) = NamesOf(c.Backends)
                     /\ \A i, j \in DOMAIN new : new[i].Name = new[j].Name => i = j
                     /\ \A i \in DOMAIN new :
                           /\ BackendConfigOf(new[i]) = Given(c.Backends, new[i].Name)
                           /\ new[i].Name \notin NamesOf(old) => Fresh(new[i])
                           /\ \A j \in DOMAIN old :
                                 (/\ old[j].Name = new[i].Name
                                  /\ BackendConfigOf(old[j]) # Given(c.Backends, new[i].Name))
                                    => (new[i].id # old[j].id /\ Fresh(new[i]))]_vars

\* an update whose list names b1 and b2 has left these two backends, one of
\* them a replacement of an earlier backend of its name
C14_Witness ==
    /\ ret.op = "UpdateService" /\ ret.err = "nil"
    /\ ~ret.cfg.BackendsNil /\ Len(ret.cfg.Backends) = 2
    /\ NamesOf(ret.cfg.Backends) = {"b1", "b2"}
    /\ Len(svcs["s1"].Backends) = 2
    /\ \E i \in DOMAIN svcs["s1"].Backends : svcs["s1"].Backends[i].id # 0

\* the backend b of the live list is in the list bs with equal configuration
\* after defaults
InBothEqual(b, bs) ==
    \E k \in DOMAIN bs : bs[k].Name = b.Name /\ BackendEqual(BackendConfigOf(b), bs[k])

\* C15: UpdateService leaves untouched every backend that is in both the live
\* and the new config with equal configuration after defaults: it is the same
\* backend afterwards, its health-check task was neither stopped nor started
\* again, and its Up state and counters are as before.
C15_EqualBackendsUntouched ==
    [][(ret'.op = "UpdateService" /\ ret'.name \in DOMAIN svcs) =>
          LET c == ret'.cfg
              old == svcs[c.Name].Backends
              new == svcs'[c.Name].Backends
          IN \A j \in DOMAIN old :
                (c.BackendsNil \/ InBothEqual(old[j], c.Backends))
                   => \E i \in DOMAIN new : new[i] = old[j]]_vars

----------------------------------------------------------------------------
\* Config round trips (SpecRound): UpdateConfig is given a global Fall of 3, or
\* the zero globals and up to two services: s1 with the hostnames "b", "a" (in
\* this order) and the backend b1, with the hostnames "a", "", or bare; s2 with
\* the hostname "a" or in maintenance mode.  It is also given what Config()
\* returns, written as JSON and read back.  The probes of b1 succeed or fail.

RoundBackend == [ZeroBackendConfig("b1") EXCEPT !.Addr = "u1", !.CheckAddr = "c"]

RoundServices ==
    {[ZeroServiceConfig("s1") EXCEPT !.Addr = "x", !.VHNil = FALSE, !.VirtualHosts = <<2, 1>>,
                                     !.BackendsNil = FALSE, !.Backends = <<RoundBackend>>],
     [ZeroServiceConfig("s1") EXCEPT !.Addr = "x", !.VHNil = FALSE, !.VirtualHosts = <<1, 0>>],
     [ZeroServiceConfig("s1") EXCEPT !.Addr = "x"],
     [ZeroServiceConfig("s2") EXCEPT !.Addr = "y", !.VHNil = FALSE, !.VirtualHosts = <<1>>],
     [ZeroServiceConfig("s2") EXCEPT !.Addr = "y", !.MaintenanceMode = TRUE]}

RoundLists ==
    {<<>>} \cup {<<a>> : a \in RoundServices}
    \cup {l \in {<<a, b>> : a, b \in RoundServices} : l[1].Name = "s1" /\ l[2].Name = "s2"}

RoundInputs ==
    {ZeroConfig @@ [Services |-> l] : l \in RoundLists}
    \cup {[ZeroConfig EXCEPT !.Fall = 3] @@ [Services |-> <<>>]}

\* the orders in which the iteration over the map of services may go
MapOrders(W) == {o \in SeqsUpTo(DOMAIN W.svcs, Cardinality(DOMAIN W.svcs)) :
                    Len(o) = Cardinality(DOMAIN W.svcs) /\ SeqToSet(o) = DOMAIN W.svcs}

\* what Config() may return for the registry, as read back from its JSON
RoundTrips(W) == {ViaJSON(Config(W, o)) : o \in MapOrders(W)}

NextRound ==
    \/ \E c \in RoundInputs : DoUpdateConfigWith(c, {}, <<"b1", "b2">>)
    \/ \E c \in RoundTrips(Registry) : DoUpdateConfigWith(c, {}, <<"b1", "b2">>)
    \/ \E n \in Names : DoRemoveService(n)
    \/ \E ok \in BOOLEAN : DoCheck("s1", 1, ok)

SpecRound == Init /\ [][NextRound]_vars

\* C16: UpdateConfig of the value Config() returns changes nothing: it returns
\* no error, every service and backend is the one it was, in the state it was
\* in, the vhost table, the listeners and the defaults are as before, and
\* Config() returns what it returned before; and UpdateConfig of the config
\* the call before it was given changes nothing either.
C16_ConfigRoundTrip ==
    [][ret'.op = "UpdateConfig" =>
          /\ ret'.cfg \in RoundTrips(Registry) =>
                /\ ret'.err = "nil"
                /\ UNCHANGED RegistryVars
                /\ RoundTrips(Registry') = RoundTrips(Registry)
          /\ (ret.op = "UpdateConfig" /\ ret'.cfg = ret.cfg) => UNCHANGED RegistryVars]_vars

----------------------------------------------------------------------------
\* Networks (SpecNet): s1 is created as a TCP or as a UDP service (the network
\* left out, "tcp" or "udp"), and backends b1 and b2 are added, with the network
\* left out, "tcp" or "udp", and removed.

NetSvcInputs ==
    {[ZeroServiceConfig("s1") EXCEPT !.Addr = "x", !.Network = nw] : nw \in {"", "tcp", "udp"}}

NetBackendInputs ==
    {[ZeroBackendConfig(n) EXCEPT !.Addr = "u", !.Network = nw] :
        n \in BNames, nw \in {"", "tcp", "udp"}}

NextNet ==
    \/ \E c \in NetSvcInputs : DoAddService(c, FALSE)
    \/ \E b \in NetBackendInputs : DoAddBackend("s1", b)
    \/ \E bn \in BNames : DoRemoveBackend("s1", bn)
    \/ \E n \in Names : DoRemoveService(n)

SpecNet == Init /\ [][NextNet]_vars

\* C17: every backend in the list of a service has the network family (tcp or
\* udp) of the service.
C17_BackendsOfServiceFamily ==
    \A n \in DOMAIN svcs : \A i \in DOMAIN svcs[n].Backends :
       Family(svcs[n].Backends[i].Network) = Family(svcs[n].Network)

----------------------------------------------------------------------------
\* Least-connected balancing (SpecLC): s1 balances with LC; backends b1 and b2,
\* each with a check address, are added while connections are accepted and
\* forwarded (every dial succeeds) and the probes succeed or fail; the balancer
\* is asked for its list.

LCSvcInput ==
    [ZeroServiceConfig("s1") EXCEPT !.Addr = "x", !.Balance = LeastConn, !.Fall = 1, !.Rise = 1]

LCBackendInputs == {[ZeroBackendConfig(b) EXCEPT !.Addr = "u", !.CheckAddr = "c"] : b \in BNames}

\* the service lists no backend of the name
Unlisted(sn, bn) ==
    sn \in DOMAIN svcs /\ \A i \in DOMAIN svcs[sn].Backends : svcs[sn].Backends[i].Name # bn

NextLC ==
    \/ DoAddService(LCSvcInput, FALSE)
    \/ \E b \in LCBackendInputs : Unlisted("s1", b.Name) /\ DoAddBackend("s1", b)
    \/ \E i \in 1..Cardinality(BNames), ok \in BOOLEAN : DoCheck("s1", i, ok)
    \/ \E l \in loops : runTCP(l, "conn")
    \/ \E c \in conns : connectTCP(c, TRUE)
    \/ DoNextAddrsList("s1")

SpecLC == Init /\ [][NextLC]_vars

\* the positions of the Up backends in a list
UpAt(bs) == {i \in DOMAIN bs : bs[i].up}

\* C18: with least-connected balancing the list returned holds the Up backends
\* and no Down one; its first is an Up backend whose Active count is minimal
\* among the Up backends, the earliest such in the order of the backend list.
\* So a backend added without connections comes ahead of those that hold
\* live connections.
C18_LeastConn ==
    [][(ret'.op = "NextAddrs" /\ svcs[ret'.name].Balance = LeastConn) =>
          LET sn == ret'.name
              bs == svcs[sn].Backends
              list == ret'.list
          IN /\ SeqToSet(list) = {Ref(bs[i]) : i \in UpAt(bs)}
             /\ Len(list) = Cardinality(UpAt(bs))
             /\ UpAt(bs) # {} =>
                   \E i \in UpAt(bs) :
                      /\ list[1] = Ref(bs[i])
                      /\ \A j \in UpAt(bs) :
                            \/ Active(sn, Ref(bs[i])) < Active(sn, Ref(bs[j]))
                            \/ Active(sn, Ref(bs[i])) = Active(sn, Ref(bs[j])) /\ i <= j]_vars

\* the first of the list is the second backend, which holds no connection,
\* while the first backend is Up and holds one
C18_Witness ==
    /\ ret.op = "NextAddrs" /\ "s1" \in DOMAIN svcs
    /\ Len(svcs["s1"].Backends) = 2 /\ Len(ret.list) = 2
    /\ ret.list[1] = Ref(svcs["s1"].Backends[2])
    /\ Active("s1", Ref(svcs["s1"].Backends[1])) > 0
    /\ Active("s1", Ref(svcs["s1"].Backends[2])) = 0

----------------------------------------------------------------------------
\* Backends without a check address (SpecCheck): s1 is created with the backend
\* b1, which has a check address; b1 is replaced by a b1 without one, and that
\* one by a b1 with one again; probes succeed or fail, connections are accepted
\* and their dials succeed or fail.

CheckBackend(ca) == [ZeroBackendConfig("b1") EXCEPT !.Addr = "u", !.CheckAddr = ca]

CheckSvcInput ==
    [ZeroServiceConfig("s1") EXCEPT !.Addr = "x", !.Fall = 1, !.Rise = 1,
                                    !.BackendsNil = FALSE, !.Backends = <<CheckBackend("c")>>]

\* the first backend of the service has a check address, or has none
FirstChecked(sn, checked) ==
    /\ sn \in DOMAIN svcs /\ Len(svcs[sn].Backends) > 0
    /\ (svcs[sn].Backends[1].CheckAddr # "") = checked

NextCheck ==
    \/ DoAddService(CheckSvcInput, FALSE)
    \/ \E checked \in BOOLEAN :
          FirstChecked("s1", checked)
          /\ DoAddBackend("s1", CheckBackend(IF checked THEN "" ELSE "c"))
    \/ \E ok \in BOOLEAN : DoCheck("s1", 1, ok)
    \/ \E l \in loops : runTCP(l, "conn")
    \/ \E c \in conns : \E ok \in BOOLEAN : connectTCP(c, ok)

SpecCheck == Init /\ [][NextCheck]_vars

\* C19: a backend without a check address is Up and has no failed probe
\* counted, whatever the probes and dials of its upstream do.  When Service.add
\* replaces a backend that has a check address by one of the same name without,
\* the task of the old backend is stopped and none runs for the new one, which
\* is Up.
C19_NoCheckAddrAlwaysUp ==
    [][/\ \A n \in DOMAIN svcs' : \A i \in DOMAIN svcs'[n].Backends :
             LET b == svcs'[n].Backends[i]
             IN b.CheckAddr = "" => (b.up /\ b.failStreak = 0 /\ ~b.running)
       /\ \A i \in 1..Cardinality(BNames) :
             (AddsExisting(i) /\ svcs'[ret'.name].Backends[i].CheckAddr = "") =>
                /\ svcs'[ret'.name].Backends[i].id # svcs[ret'.name].Backends[i].id
                /\ ~svcs'[ret'.name].Backends[i].running
                /\ orphans' = orphans]_vars

\* the backend without a check address has replaced another, a dial of its
\* upstream has failed and been counted, and it is Up
C19_Witness ==
    /\ ret.op = "connectTCP" /\ ret.err = "dialFailed" /\ "s1" \in DOMAIN svcs
    /\ \E i \in DOMAIN svcs["s1"].Backends :
          LET b == svcs["s1"].Backends[i]
          IN b.CheckAddr = "" /\ b.id # 0 /\ b.Errors > 0 /\ b.up

----------------------------------------------------------------------------
\* Services that cannot start (SpecStart): s1 is created at the address "x", on
\* the default network or the unknown networks "unix" and "ip", with or without
\* the hostname "a" and the backend b1; s2 is created at the same address with
\* the same hostname; the environment lets the bind succeed or fail; services
\* are removed.

StartBackend == [ZeroBackendConfig("b1") EXCEPT !.Addr = "u", !.CheckAddr = "c"]

StartInputs ==
    {[ZeroServiceConfig("s1") EXCEPT !.Addr = "x", !.Network = nw] : nw \in {"", "unix", "ip"}}
    \cup {[ZeroServiceConfig("s1") EXCEPT !.Addr = "x", !.Network = nw,
                                         !.VHNil = FALSE, !.VirtualHosts = <<1>>,
                                         !.BackendsNil = FALSE, !.Backends = <<StartBackend>>] :
             nw \in {"", "unix", "ip"}}
    \cup {[ZeroServiceConfig("s2") EXCEPT !.Addr = "x", !.VHNil = FALSE, !.VirtualHosts = <<1>>]}

NextStart ==
    \/ \E c \in StartInputs, envFail \in BOOLEAN : DoAddServiceWith(c, envFail)
    \/ \E n \in Names : DoRemoveService(n)

SpecStart == Init /\ [][NextStart]_vars

\* the network a service of the config listens on
NetworkOf(c) == IF c.Network = "" THEN DefaultNet ELSE c.Network

\* the service of the config cannot be started: its network is unknown, the
\* environment refuses the bind, or an open listener holds its address
CannotStart(c, envFail) ==
    \/ Family(NetworkOf(c)) = "unknown"
    \/ envFail
    \/ \E l \in loops : ~l.closed /\ l.net = Family(NetworkOf(c)) /\ l.addr = c.Addr

\* C20: when AddService cannot start the service (the listener cannot bind, or
\* the network is unknown), it returns the error and leaves the registry as it
\* was: the name is not registered, and the vhost table, the listeners and the
\* defaults are unchanged.
C20_FailedStartChangesNothing ==
    [][(/\ ret'.op = "AddService"
        /\ ret'.name \notin DOMAIN svcs
        /\ CannotStart(ret'.cfg, ret'.envFail)) =>
          /\ ret'.err = "ErrStart"
          /\ UNCHANGED <<svcs, vhosts, cfg, loops>>]_vars

----------------------------------------------------------------------------
\* Removing backends (SpecRemove): s1 is created with Fall and Rise of 1,
\* backends b0, b1 and b2 are added with or without a check address, probed,
\* looked up and removed; so are backends of s2, which is never registered.

RemoveSvcInput == [ZeroServiceConfig("s1") EXCEPT !.Addr = "x", !.Fall = 1, !.Rise = 1]

RemoveBackendInputs ==
    {[ZeroBackendConfig(n) EXCEPT !.Addr = "u", !.CheckAddr = ca] :
        n \in RRNames, ca \in {"", "c"}}

NextRemove ==
    \/ DoAddService(RemoveSvcInput, FALSE)
    \/ \E b \in RemoveBackendInputs : Unlisted("s1", b.Name) /\ DoAddBackend("s1", b)
    \/ \E sn \in Names, bn \in RRNames : DoRemoveBackend(sn, bn)
    \/ \E sn \in Names, bn \in RRNames : DoBackendStats(sn, bn)
    \/ \E i \in 1..Cardinality(RRNames) : DoCheck("s1", i, FALSE)

SpecRemove == Init /\ [][NextRemove]_vars

\* the backends of the name in a list
Named(bs, name) == {i \in DOMAIN bs : bs[i].Name = name}

\* C21: RemoveBackend for a backend the service lists returns no error and
\* removes that backend only: every other backend is in the list exactly once
\* afterwards, as it was (same object, Up state, counters and task), the list is
\* one shorter, no task of the removed backend is left running, and BackendStats
\* for its name then gives ErrNoBackend.  For an unknown service the call gives
\* ErrNoService, for an unknown backend ErrNoBackend, and the registry is as it
\* was.  BackendStats gives no error exactly for a listed backend.
C21_RemoveBackendExact ==
    [][/\ ret'.op = "RemoveBackend" =>
            LET n == ret'.name
                b == ret'.backend
            IN IF n \notin DOMAIN svcs
               THEN ret'.err = "ErrNoService" /\ UNCHANGED RegistryVars
               ELSE IF Named(svcs[n].Backends, b) = {}
               THEN ret'.err = "ErrNoBackend" /\ UNCHANGED RegistryVars
               ELSE LET old == svcs[n].Backends
                        new == svcs'[n].Backends
                    IN /\ ret'.err = "nil"
                       /\ Len(new) = Len(old) - 1
                       /\ Named(new, b) = {}
                       /\ \A i \in DOMAIN old :
                             old[i].Name # b =>
                                Cardinality({j \in DOMAIN new : new[j] = old[i]}) = 1
                       /\ orphans' = orphans
                       /\ BackendStats([Registry EXCEPT !.svcs = svcs'], n, b).err = "ErrNoBackend"
                       /\ svcs' = [svcs EXCEPT ![n].Backends = new]
                       /\ UNCHANGED <<vhosts, cfg, loops>>
       /\ ret'.op = "BackendStats" =>
            ret'.err = IF ret'.name \notin DOMAIN svcs THEN "ErrNoService"
                       ELSE IF Named(svcs[ret'.name].Backends, ret'.backend) = {}
                       THEN "ErrNoBackend" ELSE "nil"]_vars

\* the first of three backends has been removed: the last one took its place,
\* Down as it was and with its task, beside the second
C21_Witness ==
    /\ ret.op = "RemoveBackend" /\ ret.err = "nil" /\ ret.backend = "b0"
    /\ "s1" \in DOMAIN svcs /\ Len(svcs["s1"].Backends) = 2
    /\ svcs["s1"].Backends[1].Name = "b2" /\ svcs["s1"].Backends[2].Name = "b1"
    /\ ~svcs["s1"].Backends[1].up /\ svcs["s1"].Backends[1].running

----------------------------------------------------------------------------
\* The UDP forwarding plane (SpecUDP): s1 is created once as a UDP service with
\* the backend b1; datagrams of the clients k1 and k2 arrive, their upstream
\* sockets are dialed, the reply tasks read replies, errors and the deadline;
\* the service is removed.

Clients == {"k1", "k2"}

UDPSvcInput ==
    [ZeroServiceConfig("s1") EXCEPT
        !.Addr = "x", !.Network = "udp", !.BackendsNil = FALSE,
        !.Backends = <<[ZeroBackendConfig("b1") EXCEPT !.Addr = "u", !.Network = "udp"]>>]

NextUDP ==
    \/ loops = {} /\ DoAddService(UDPSvcInput, FALSE)
    \/ \E l \in loops, from \in Clients :
          \E ev \in {"closed", "error", "empty", "dropped", "writeFailed", "sent"} :
             runUDPFrom(l, from, ev)
    \/ \E f \in flows :
          \E ev \in {"refused", "empty", "datagram", "writeFailed", "error", "deadline"} :
             replyLoop(f, ev)
    \/ DoRemoveService("s1")

SpecUDP == Init /\ [][NextUDP]_vars

\* the flows of a client key at a service whose reply task is alive
Tracked(fs, sn, key) == {f \in fs : f.svc = sn /\ f.key = key /\ f.task = "reading"}

\* C22: while a reply task is alive for a client key, a datagram the service
\* receives from that key opens no upstream socket and starts no reply task (it
\* goes to the socket there is), so a service never has two live upstream
\* sockets for one client key.
C22_OneSocketPerClient ==
    [][/\ (ret'.op = "runUDP" /\ Tracked(flows, ret'.name, ret'.key) # {}) => flows' = flows
       /\ \A sn \in Names, key \in Clients : Cardinality(Tracked(flows', sn, key)) <= 1]_vars

\* the reply task of flow f makes this step, and its Read gave ev
Reads(f, ev) == ret'.op = "replyLoop" /\ ret'.flow = f.id /\ ret'.err = ev

\* the flow of the same upstream socket in a set of flows
SameFlow(fs, f) == CHOOSE g \in fs : g.id = f.id

\* C23: the reply task of a flow writes every datagram it reads from the
\* upstream socket to the client and goes on reading: it is still alive after a
\* datagram it delivered, so the replies the backend sends before the deadline
\* are all delivered, and it ends only when its Read gives an error other than
\* ECONNREFUSED or the deadline fires (or a write to the client fails).
C23_ReplyTaskDeliversAll ==
    [][\A f \in flows :
          f.task = "reading" =>
             LET g == SameFlow(flows', f)
             IN /\ Reads(f, "datagram") =>
                      (g.delivered = f.delivered + 1 /\ g.task = "reading")
                /\ g.task # "reading" =>
                      (Reads(f, "error") \/ Reads(f, "deadline") \/ Reads(f, "writeFailed"))]_vars

\* C24: an upstream socket the receive loop stored is closed once, by the reply
\* task of its flow at its end and by no other step, the removal of the service
\* among them: while the task is alive the socket is open and stored under the
\* client key in the table it was put into; when the task has ended the socket
\* has been closed exactly once and the key is in that table no more.
C24_ReplyTaskSoleCloser ==
    [][\A g \in flows' :
          /\ g.task = "reading" =>
                (g.sock = "open" /\ g.closes = 0
                 /\ g.key \in DOMAIN g.table /\ g.table[g.key] = g.id)
          /\ g.task # "reading" =>
                (g.task = "ended" /\ g.sock = "closed" /\ g.closes = 1
                 /\ g.key \notin DOMAIN g.table)
          /\ \A f \in flows :
                (f.id = g.id /\ f # g) =>
                   /\ ret'.op = "replyLoop" /\ ret'.flow = f.id
                   /\ g.closes # f.closes => (f.task = "reading" /\ g.task = "ended")]_vars

\* the service has been removed and the reply task of the first flow, which
\* outlived it, has ended at its deadline and closed its socket, while the task
\* of a second flow of the same client is still reading
C24_Witness ==
    /\ ret.op = "replyLoop" /\ ret.err = "deadline" /\ ret.flow = 1
    /\ "s1" \notin DOMAIN svcs
    /\ \E f, g \in flows :
          /\ f.id = 1 /\ f.task = "ended" /\ f.closes = 1 /\ f.table = <<>>
          /\ g.id = 2 /\ g.key = f.key /\ g.task = "reading" /\ g.sock = "open"

----------------------------------------------------------------------------
\* HTTP requests (SpecHTTP): s1 is created with or without HTTPSRedirect and
\* MaintenanceMode and with the backends b1 (probed, Fall and Rise 1) and b2;
\* requests arrive over TLS or not, with X-Forwarded-Proto https, http or
\* absent; the backend goes Down and Up; the service is removed.

HTTPSvcInputs ==
    {[ZeroServiceConfig("s1") EXCEPT
         !.Addr = "x", !.Fall = 1, !.Rise = 1, !.HTTPSRedirect = h, !.MaintenanceMode = m,
         !.VHNil = FALSE, !.VirtualHosts = <<1>>, !.BackendsNil = FALSE,
         !.Backends = <<[ZeroBackendConfig("b1") EXCEPT !.Addr = "u", !.CheckAddr = "c"],
                        [ZeroBackendConfig("b2") EXCEPT !.Addr = "v"]>>] :
        h \in BOOLEAN, m \in BOOLEAN}

Requests ==
    {[TLS |-> tls, XForwardedProto |-> p, Host |-> "a", RequestURI |-> u] :
        tls \in BOOLEAN, p \in {"", "http", "https"}, u \in {"/", "/q"}}

NextHTTP ==
    \/ \E c \in HTTPSvcInputs : DoAddService(c, FALSE)
    \/ \E r \in Requests : DoServeHTTP("s1", r)
    \/ DoAvailable("s1")
    \/ \E ok \in BOOLEAN : DoCheck("s1", 1, ok)
    \/ DoRemoveService("s1")

SpecHTTP == Init /\ [][NextHTTP]_vars

\* C25: ServeHTTP answers 301 exactly when the service has HTTPSRedirect set
\* and the request is neither over TLS nor carries X-Forwarded-Proto: https;
\* the redirect goes to https://<host><request-uri>.  A request over TLS or
\* with that header is not redirected, and none is without HTTPSRedirect.
C25_HTTPSRedirect ==
    [][ret'.op = "ServeHTTP" =>
          LET s == svcs[ret'.name]
              r == ret'.req
              redirected == ret'.resp.status = 301
          IN /\ redirected <=> (s.HTTPSRedirect /\ ~r.TLS /\ r.XForwardedProto # "https")
             /\ redirected => ret'.resp.Location = <<"https://", r.Host, r.RequestURI>>]_vars

\* C26: in maintenance mode a request that is not redirected is answered 503
\* and not handed to the reverse proxy: the balancer is not consulted and no
\* backend is given to the proxy.  Available is 0 for a service in maintenance
\* mode, whatever the state of its backends.
C26_MaintenanceMode ==
    [][/\ (ret'.op = "ServeHTTP" /\ svcs[ret'.name].MaintenanceMode
                                 /\ ret'.resp.status # 301) =>
             /\ ret'.resp.status = 503
             /\ ~ret'.resp.proxied /\ ret'.list = <<>>
             /\ svcs' = svcs /\ conns' = conns
       /\ (ret'.op = "Available" /\ svcs[ret'.name].MaintenanceMode) => ret'.n = 0
       /\ \A n \in DOMAIN svcs' : svcs'[n].MaintenanceMode => Available(svcs'[n]) = 0]_vars

\* a service in maintenance mode that redirects to https and has a backend Up
\* has answered 503 to a request that carries X-Forwarded-Proto: https
C26_Witness ==
    /\ ret.op = "ServeHTTP" /\ ret.resp.status = 503
    /\ ret.req.XForwardedProto = "https" /\ ~ret.req.TLS
    /\ "s1" \in DOMAIN svcs
    /\ svcs["s1"].MaintenanceMode /\ svcs["s1"].HTTPSRedirect
    /\ \E i \in DOMAIN svcs["s1"].Backends : svcs["s1"].Backends[i].up

----------------------------------------------------------------------------
\* Selections among changing backends (SpecSel): s1 is created with round robin
\* or least connections, backends b0, b1 and b2 (weights 1 and 2) are added and
\* removed in any order, and between any two of these steps selections are
\* made.

SelSvcInputs ==
    {[ZeroServiceConfig("s1") EXCEPT !.Addr = "x", !.Balance = b] : b \in {"", LeastConn}}

SelBackendInputs ==
    {[ZeroBackendConfig(n) EXCEPT !.Addr = "u", !.Weight = w] : n \in RRNames, w \in {0, 2}}

NextSel ==
    \/ \E c \in SelSvcInputs : DoAddService(c, FALSE)
    \/ \E b \in SelBackendInputs : Unlisted("s1", b.Name) /\ DoAddBackend("s1", b)
    \/ \E bn \in RRNames : DoRemoveBackend("s1", bn)
    \/ DoNext("s1")

SpecSel == Init /\ [][NextSel]_vars

----------------------------------------------------------------------------
\* Defaults (SpecDefaults): UpdateConfig sets one of the global defaults
\* Balance, CheckInterval, Fall, Rise, ClientTimeout and ServerTimeout, or all
\* of them (to LC, 7000, 3, 3, 3000, 3000), call after call; s1 is created with
\* none, one, five or all of the same fields set (to RR, 9000, 1, 1, 1000,
\* 1000) and removed.

DefaultsFields == {"Balance", "CheckInterval", "Fall", "Rise", "ClientTimeout", "ServerTimeout"}

\* the record r with the fields of the set given their values in v
WithFields(r, set, v) ==
    [f \in DOMAIN r |-> IF f \in set THEN v[f] ELSE r[f]]

DefaultsGlobals ==
    {WithFields(ZeroConfig @@ [Services |-> <<>>], set,
                [Balance |-> LeastConn, CheckInterval |-> 7000, Fall |-> 3, Rise |-> 3,
                 ClientTimeout |-> 3000, ServerTimeout |-> 3000]) :
        set \in {x \in SUBSET DefaultsFields : Cardinality(x) \in {1, 6}}}

DefaultsServices ==
    {WithFields([ZeroServiceConfig("s1") EXCEPT !.Addr = "x"], set,
                [Balance |-> RoundRobin, CheckInterval |-> 9000, Fall |-> 1, Rise |-> 1,
                 ClientTimeout |-> 1000, ServerTimeout |-> 1000]) :
        set \in {x \in SUBSET DefaultsFields : Cardinality(x) \in {0, 1, 5, 6}}}

NextDefaults ==
    \/ \E c \in DefaultsGlobals : DoUpdateConfig(c, {}, <<>>)
    \/ \E c \in DefaultsServices : "s1" \notin DOMAIN svcs /\ DoAddServiceWith(c, FALSE)
    \/ DoRemoveService("s1")

SpecDefaults == Init /\ [][NextDefaults]_vars

\* the built-in default of a field
BuiltIn ==
    [Balance |-> DefaultBalance, CheckInterval |-> DefaultCheckInterval,
     Fall |-> DefaultFall, Rise |-> DefaultRise,
     ClientTimeout |-> DefaultTimeout, ServerTimeout |-> DefaultTimeout]

\* a field of a config is set
IsSet(c, f) == c[f] # (IF f = "Balance" THEN "" ELSE 0)

\* the value a field of a new service is to get from its config c under the
\* global defaults g
Expected(c, g, f) ==
    IF IsSet(c, f) THEN c[f] ELSE IF IsSet(g, f) THEN g[f] ELSE BuiltIn[f]

\* C30: a service AddService creates has, for each of Balance, CheckInterval,
\* Fall, Rise, ClientTimeout and ServerTimeout, the value of its config when
\* the config sets the field, otherwise the global default of the registry when
\* that is set, otherwise the built-in default (RR, 5000, 2, 2, 2000, 2000);
\* the config of the service reports the same values.
C30_DefaultsPrecedence ==
    [][(ret'.op = "AddService" /\ ret'.err = "nil") =>
          LET s == svcs'[ret'.name]
              want == [f \in DefaultsFields |-> Expected(ret'.cfg, cfg, f)]
          IN /\ s.Balance = want.Balance
             /\ s.CheckInterval = want.CheckInterval
             /\ s.Fall = want.Fall
             /\ s.Rise = want.Rise
             /\ s.ClientTimeout = want.ClientTimeout * Millisecond
             /\ s.ServerTimeout = want.ServerTimeout * Millisecond
             /\ \A f \in DefaultsFields : config(s)[f] = want[f]]_vars

\* a service was created whose config sets Fall only, under global defaults
\* for Fall and ClientTimeout and none for ServerTimeout: the three values come
\* from the config, the registry and the built-in default
C30_Witness ==
    /\ ret.op = "AddService" /\ ret.err = "nil" /\ "s1" \in DOMAIN svcs
    /\ ret.cfg.Fall = 1 /\ ret.cfg.ClientTimeout = 0 /\ ret.cfg.ServerTimeout = 0
    /\ cfg.Fall = 3 /\ cfg.ClientTimeout = 3000 /\ cfg.ServerTimeout = 0
    /\ svcs["s1"].Fall = 1
    /\ svcs["s1"].ClientTimeout = 3000 * Millisecond
    /\ svcs["s1"].ServerTimeout = DefaultTimeout * Millisecond

----------------------------------------------------------------------------
\* The locks of the registry, its services and its vhosts: two callers, each
\* in AddService, RemoveService, GetVHostService or UpdateConfig, their steps
\* interleaved as the locks allow.  s1 has a backend and s2 none; both answer
\* for hostname "a".

LockSvcInputs ==
    {[ZeroServiceConfig("s1") EXCEPT !.Addr = "x", !.VHNil = FALSE, !.VirtualHosts = <<1>>,
         !.BackendsNil = FALSE,
         !.Backends = <<[ZeroBackendConfig("b1") EXCEPT !.Addr = "u"]>>],
     [ZeroServiceConfig("s2") EXCEPT !.Addr = "y", !.VHNil = FALSE, !.VirtualHosts = <<1>>]}

\* the configs submitted to UpdateConfig: global defaults alone, and a global
\* default with s1 moved to hostname "b" and its backend moved
LockConfigs ==
    {[ZeroConfig EXCEPT !.Fall = 3] @@ [Services |-> <<>>],
     [ZeroConfig EXCEPT !.Fall = 3] @@
         [Services |-> <<[ZeroServiceConfig("s1") EXCEPT !.Addr = "x", !.VHNil = FALSE,
                             !.VirtualHosts = <<2>>, !.BackendsNil = FALSE,
                             !.Backends = <<[ZeroBackendConfig("b1") EXCEPT !.Addr = "w"]>>]>>]}

NextLock ==
    \/ \E t \in Tasks, c \in LockSvcInputs : Enter(t, "AddService", c)
    \/ \E t \in Tasks, c \in LockSvcInputs : Enter(t, "RemoveService", c)
    \/ \E t \in Tasks, c \in LockSvcInputs : Enter(t, "GetVHostService", c)
    \/ \E t \in Tasks : Step(t)
    \/ \E t \in Tasks, c \in LockConfigs : UpdateConfigBegin(t, c)
    \/ \E t \in Tasks : UpdateConfigGlobal(t)
    \/ \E t \in Tasks : UpdateConfigService(t)
    \/ \E t \in Tasks : UpdateConfigEnd(t)

SpecLock == Init /\ [][NextLock]_vars

\* the place of a lock in the order Registry, Service, VirtualHost
LockRank(l) == IF l.kind = "Registry" THEN 1 ELSE IF l.kind = "Service" THEN 2 ELSE 3

\* C27: a caller takes its locks in the order Registry, then Service, then
\* VirtualHost: of the locks a caller holds, none was taken while it held one
\* later in the order; no Service lock is taken by a caller that holds a
\* VirtualHost lock.
C27_LockOrder ==
    \A t \in Tasks : \A i, j \in DOMAIN tasks[t].held :
        i < j => LockRank(tasks[t].held[i]) <= LockRank(tasks[t].held[j])

\* the fields of the registry: the two maps and the global defaults
RegistryFields == {"svcs", "vhosts", "cfg"}

\* the callers inside the writes UpdateConfig makes of the global defaults
SettingGlobals == {t \in Tasks : tasks[t].uc /\ tasks[t].fields # <<>>}

\* C28: every read and write of the service map, the vhost map and the global
\* defaults is made by a caller that holds the Registry lock, the writes
\* UpdateConfig makes of the global defaults included, and no two callers of
\* UpdateConfig are inside their writes of the global defaults together.
C28_RegistryLockGuards ==
    /\ (ret.op = "step" /\ ret.event.on \in RegistryFields)
           => RegistryLock \in SeqToSet(ret.held)
    /\ Cardinality(SettingGlobals) <= 1

----------------------------------------------------------------------------
\* The service of a vhost: three services answer for hostname "a", each with
\* one backend that may be removed and added again; they are added and
\* removed in any order, and between any two of these steps the vhost is
\* asked for a service.

\* ServiceRegistry.GetVHostService, with the vhost as it was at the call kept
\* in ret.  The panic of VirtualHost.Service leaves the vhost as it was.
DoGetVHostService(h) ==
    \E r \in {GetVHostService(Registry, h)} :
       /\ SetRegistry(IF r.err = "panic" THEN Registry ELSE r.W)
       /\ ret' = [host |-> h, svc |-> r.svc] @@ Ret("GetVHostService", "", r.err)
       /\ UNCHANGED <<conns, httpsRedirect, flows, tasks, store>>

PickNames == {"s1", "s2", "s3"}

PickSvcInputs ==
    {[ZeroServiceConfig(n) EXCEPT !.Addr = n, !.VHNil = FALSE, !.VirtualHosts = <<1>>,
         !.BackendsNil = FALSE,
         !.Backends = <<[ZeroBackendConfig("b1") EXCEPT !.Addr = "u"]>>] : n \in PickNames}

PickBackendInput == [ZeroBackendConfig("b1") EXCEPT !.Addr = "u"]

NextPick ==
    \/ \E c \in PickSvcInputs : c.Name \notin DOMAIN svcs /\ DoAddService(c, FALSE)
    \/ \E n \in PickNames : n \in DOMAIN svcs /\ DoRemoveService(n)
    \/ \E n \in PickNames : Unlisted(n, "b1") /\ DoAddBackend(n, PickBackendInput)
    \/ \E n \in PickNames : n \in DOMAIN svcs /\ DoRemoveBackend(n, "b1")
    \/ \E h \in {1, 2} : DoGetVHostService(h)

SpecPick == Init /\ [][NextPick]_vars

\* a service with at least one Up backend that is not in maintenance mode
Qualifies(n) ==
    /\ n \in DOMAIN svcs
    /\ ~svcs[n].MaintenanceMode
    /\ \E i \in DOMAIN svcs[n].Backends : svcs[n].Backends[i].up

\* the service of a vhost k places after the last-served one, wrapping around
After(v, k) == v.services[((v.last + k) % Len(v.services)) + 1]

\* C31: VirtualHost.Service returns the first service after the last-served
\* one, in insertion order and wrapping around, that qualifies, and records it
\* as last-served; when none qualifies it returns the last-served one, a
\* registered service; it returns nil only for a hostname with no services.
C31_VHostServicePick ==
    [][ret'.op = "GetVHostService" =>
          IF ret'.host \notin DOMAIN vhosts \/ Len(vhosts[ret'.host].services) = 0
          THEN ret'.err = "nil" /\ ret'.svc = ""
          ELSE LET v == vhosts[ret'.host]
                   n == Len(v.services)
                   q == {k \in 1..n : Qualifies(After(v, k))}
                   first == CHOOSE k \in q : \A j \in q : k <= j
               IN /\ ret'.err = "nil"
                  /\ ret'.svc \in SeqToSet(v.services)
                  /\ IF q # {}
                     THEN /\ ret'.svc = After(v, first)
                          /\ vhosts'[ret'.host].services[vhosts'[ret'.host].last + 1] = ret'.svc
                     ELSE /\ v.last < n
                          /\ ret'.svc = v.services[v.last + 1]
                          /\ vhosts'[ret'.host] = v]_vars

\* C32: the last-served index of a vhost with a service is an index of its
\* list, whatever services were added, removed and served before, and
\* VirtualHost.Service never reads its list past the end.
C32_LastServedInRange ==
    /\ \A h \in DOMAIN vhosts :
          Len(vhosts[h].services) > 0 => vhosts[h].last < Len(vhosts[h].services)
    /\ ~(ret.op = "GetVHostService" /\ ret.err = "panic")

\* C33: every hostname the vhost diff of UpdateService schedules for removal
\* has an entry in the vhost table, whatever lists of hostnames (with empty
\* strings, with repeated names) the service was created and updated with:
\* no UpdateService panics on a missing vhost, each runs to completion.
C33_RemovalsHaveVHosts ==
    ret.op = "UpdateService" => ret.err # "panic"

\* C34: after any operation that returned, a health-check task runs only for
\* backends in the list of a registered service: no task is left running for a
\* backend that was removed or replaced, whose service was removed, or whose
\* service AddService built and could not start.
C34_TasksOnlyForListedBackends ==
    ret.err # "panic" => orphans = {}

----------------------------------------------------------------------------
\* Timeouts of the backends (SpecTimeouts): s1 is created and updated with
\* each choice of ServerTimeout, DialTimeout and CheckInterval, left out or
\* set, and with the backend b1 left out of the config, given as it is, or
\* given with another address.

TimeoutBackends ==
    {[ZeroBackendConfig("b1") EXCEPT !.Addr = a] : a \in {"u1", "u2"}}

TimeoutInputs ==
    {[ZeroServiceConfig("s1") EXCEPT !.Addr = "x", !.ServerTimeout = st, !.DialTimeout = dt,
                                    !.CheckInterval = ci, !.BackendsNil = (bs = <<>>),
                                    !.Backends = bs] :
        st \in {0, 3000}, dt \in {0, 4000}, ci \in {0, 6000},
        bs \in {<<>>} \cup {<<b>> : b \in TimeoutBackends}}

NextTimeouts ==
    \/ \E c \in TimeoutInputs : "s1" \notin DOMAIN svcs /\ DoAddService(c, FALSE)
    \/ \E c \in TimeoutInputs : DoUpdateServiceWith(c, <<"b1", "b2">>)
    \/ DoRemoveService("s1")

SpecTimeouts == Init /\ [][NextTimeouts]_vars

\* the timeouts and the check interval of the backend are those of the service
Inherits(s, b) ==
    /\ b.rwTimeout = s.ServerTimeout
    /\ b.dialTimeout = s.DialTimeout
    /\ b.checkInterval = s.CheckInterval * Millisecond

\* C35: after an UpdateService that succeeded and changed the ServerTimeout,
\* the DialTimeout or the CheckInterval of the service, every backend of the
\* service has the new values, the backends that were kept included.
C35_BackendsInheritTimeouts ==
    [][(/\ ret'.op = "UpdateService" /\ ret'.err = "nil"
        /\ ret'.name \in DOMAIN svcs
        /\ \/ svcs'[ret'.name].ServerTimeout # svcs[ret'.name].ServerTimeout
           \/ svcs'[ret'.name].DialTimeout # svcs[ret'.name].DialTimeout
           \/ svcs'[ret'.name].CheckInterval # svcs[ret'.name].CheckInterval) =>
          \A i \in DOMAIN svcs'[ret'.name].Backends :
             Inherits(svcs'[ret'.name], svcs'[ret'.name].Backends[i])]_vars

\* the caller of ret is inside UpdateConfig and has entered the AddService or
\* UpdateService of a service of its config
InUpdateConfigCall ==
    /\ ret.op = "step" /\ ret.name \in {"AddService", "UpdateService"}
    /\ tasks[ret.task].uc

\* C36: whatever other callers do between the GetService of UpdateConfig and
\* the call that follows it, the call does not fail for the name being taken or
\* gone: of two UpdateConfig with the same new service neither reports
\* ErrDuplicateService, and an UpdateConfig racing with RemoveService does not
\* report ErrNoService.
C36_UpdateConfigRaceFree ==
    InUpdateConfigCall => ret.err \notin {"ErrDuplicateService", "ErrNoService"}

----------------------------------------------------------------------------
\* Service.Stats

\* the sum of the Errors of the backends of a list, from index i on
RECURSIVE SumErrors(_, _)
SumErrors(bs, i) == IF i > Len(bs) THEN 0 ELSE bs[i].Errors + SumErrors(bs, i + 1)

\* Service.Stats: the totals are summed over the backends the service lists at
\* the call.  Of the totals the model keeps the Errors.
Stats(s) ==
    [Name |-> s.Name, Addr |-> s.Addr, Balance |-> s.Balance,
     Backends |-> [i \in DOMAIN s.Backends |-> s.Backends[i].Name],
     Errors |-> SumErrors(s.Backends, 1)]

\* C39: the totals Service.Stats reports for a service never decrease from one
\* observation to the next, whatever connections are made and whatever
\* backends are added, replaced and removed in between.
C39_StatsTotalsMonotonic ==
    [][\A n \in DOMAIN svcs \cap DOMAIN svcs' :
          Stats(svcs'[n]).Errors >= Stats(svcs[n]).Errors]_vars

\* C38: a failed write of a datagram to the upstream socket does not end the
\* receive loop of the UDP service: the loop goes on to wait for the next
\* datagram of its listener.
C38_WriteErrorKeepsReceiving ==
    [][(ret'.op = "runUDP" /\ ret'.err = "writeFailed") =>
          \E l \in loops' : l.svc = ret'.name /\ l.net = "udp" /\ l.pc = "wait"]_vars

----------------------------------------------------------------------------
\* Registry operations and the data path (SpecDataPath): two callers, each in
\* a method of the registry or in a call the data path makes of a service,
\* their steps interleaved as the locks allow.  s1 answers for hostname "a" and
\* has the backend b1.

\* the names of a set of services, as a list in some order of the map
RECURSIVE InSomeOrder(_)
InSomeOrder(S) ==
    IF S = {} THEN <<>>
    ELSE LET x == CHOOSE x \in S : TRUE IN <<x>> \o InSomeOrder(S \ {x})

\* ServiceRegistry.AddBackend and RemoveBackend: Service.add or Service.remove
\* of the service, when it is registered
BackendCallEvents(W, n) ==
    <<ReadEv("svcs")>> \o (IF n \in DOMAIN W.svcs THEN ServiceLocked(n) ELSE <<>>)

\* ServiceRegistry.Stats: Service.Stats of every service
StatsEvents(W) ==
    LET names == InSomeOrder(DOMAIN W.svcs)
    IN <<ReadEv("svcs")>> \o Flatten([i \in DOMAIN names |-> ServiceLocked(names[i])])

\* ServiceRegistry.Config: the services of the stored config are purged, the
\* config copied, and Service.Config asked of every service
ConfigEvents(W) ==
    LET names == InSomeOrder(DOMAIN W.svcs)
    IN <<WriteEv("cfg"), ReadEv("cfg"), ReadEv("svcs")>>
       \o Flatten([i \in DOMAIN names |-> ServiceLocked(names[i])])

\* Service.Dial taking, while it holds the service, the lock of the vhost
DialEventsLockingVHost(n) ==
    <<LockEv(ServiceLock(n)), LockEv(VHostLock(1)), UnlockEv(VHostLock(1)),
      UnlockEv(ServiceLock(n))>>

\* Service.Dial: the backend of the address is looked up under the lock of
\* the service, which is released before the dial
DialEvents(n) == ServiceLocked(n)

\* Service.NextAddrs: s.next() reads the backends with no lock taken
NextAddrsEvents(n) == <<ReadEv("Backends")>>

\* a method of the registry on a caller that is in no call
Call(t, call, arg) ==
    /\ ~tasks[t].uc
    /\ \/ /\ call = "UpdateService"
          /\ Section(t, call, UpdateService(Registry, arg, <<"b1", "b2">>),
                     UpdateServiceEvents(Registry, arg, <<"b1", "b2">>), tasks[t])
       \/ /\ call = "AddBackend"
          /\ Section(t, call, AddBackend(Registry, arg.Name, arg.Backends[1]),
                     BackendCallEvents(Registry, arg.Name), tasks[t])
       \/ /\ call = "RemoveBackend"
          /\ Section(t, call, RemoveBackend(Registry, arg.Name, arg.Backends[1].Name),
                     BackendCallEvents(Registry, arg.Name), tasks[t])
       \/ /\ call = "Stats"
          /\ Section(t, call, [W |-> Registry, err |-> "nil"], StatsEvents(Registry), tasks[t])
       \/ /\ call = "Config"
          /\ Section(t, call, [W |-> Registry, err |-> "nil"], ConfigEvents(Registry), tasks[t])

\* a call the data path makes of a registered service, on a caller that is in
\* no call: Service.Dial, Service.Available or the selection of NextAddrs.  No
\* lock of the registry is taken.
DataPath(t, call, n) ==
    /\ ~tasks[t].uc /\ tasks[t].trace = <<>>
    /\ n \in DOMAIN svcs
    /\ \/ /\ call = "Dial"
          /\ tasks' = [tasks EXCEPT ![t].trace = DialEvents(n)]
          /\ UNCHANGED svcs
       \/ /\ call = "Available"
          /\ tasks' = [tasks EXCEPT ![t].trace = ServiceLocked(n)]
          /\ UNCHANGED svcs
       \/ /\ call = "NextAddrs"
          /\ tasks' = [tasks EXCEPT ![t].trace = NextAddrsEvents(n)]
          /\ svcs' = [svcs EXCEPT ![n] = next(svcs[n]).s]
    /\ ret' = Ret(call, n, "nil")
    /\ UNCHANGED <<vhosts, cfg, loops, orphans, conns, httpsRedirect, flows, store>>

DataPathSvcInput ==
    [ZeroServiceConfig("s1") EXCEPT !.Addr = "x", !.VHNil = FALSE, !.VirtualHosts = <<1>>,
        !.BackendsNil = FALSE,
        !.Backends = <<[ZeroBackendConfig("b1") EXCEPT !.Addr = "u"]>>]

\* the update of s1: another hostname and a moved backend
DataPathUpdate ==
    [DataPathSvcInput EXCEPT !.VirtualHosts = <<2>>,
        !.Backends = <<[ZeroBackendConfig("b1") EXCEPT !.Addr = "w"]>>]

NextDataPath ==
    \/ \E t \in Tasks : Enter(t, "AddService", DataPathSvcInput)
    \/ \E t \in Tasks : Enter(t, "RemoveService", DataPathSvcInput)
    \/ \E t \in Tasks : Enter(t, "GetVHostService", DataPathSvcInput)
    \/ \E t \in Tasks : Call(t, "UpdateService", DataPathUpdate)
    \/ \E t \in Tasks : Call(t, "AddBackend", DataPathSvcInput)
    \/ \E t \in Tasks : Call(t, "RemoveBackend", DataPathSvcInput)
    \/ \E t \in Tasks : Call(t, "Stats", DataPathSvcInput)
    \/ \E t \in Tasks : Call(t, "Config", DataPathSvcInput)
    \/ \E t \in Tasks, call \in {"Dial", "Available", "NextAddrs"} : DataPath(t, call, "s1")
    \/ \E t \in Tasks : Step(t)

SpecDataPath == Init /\ [][NextDataPath]_vars

\* every caller that can take its next step does so in the end: a goroutine
\* that is runnable is run, and one that waits for a lock gets it once the
\* lock is released often enough
SpecDataPathFair == SpecDataPath /\ \A t \in Tasks : SF_vars(Step(t))

\* C37: no interleaving of the methods of the registry with the calls of the
\* data path deadlocks on the Registry, Service and VirtualHost locks: a caller
\* that holds a lock, or waits for one, comes to hold none and to have nothing
\* left of its call.
C37_NoDeadlock ==
    \A t \in Tasks :
        (tasks[t].held # <<>> \/ tasks[t].trace # <<>>)
            ~> (tasks[t].held = <<>> /\ tasks[t].trace = <<>>)

\* a caller waits for the lock of a service that the other caller holds
C37_Witness ==
    \E t \in Tasks :
        /\ tasks[t].trace # <<>>
        /\ Head(tasks[t].trace).act = "Lock"
        /\ Head(tasks[t].trace).lock.kind = "Service"
        /\ ~Free(Head(tasks[t].trace).lock)

----------------------------------------------------------------------------
\* The state file (SpecState): the handlers of the admin server change the
\* registry and start a task that writes the state file; the tasks take
\* configMutex, serialize the config of the registry, compare it with the
\* file and write it.  The state file is configured and the file system does
\* not fail.

\* marshal, of a Config: the lists that are empty are left out, so a nil and
\* an empty list give the same bytes
marshal(c) == ViaJSON(c)

\* a handler has called a method of the registry that returned r; started says
\* that it goes on to `go writeStateConfig()`
Handled(op, name, r, err, started) ==
    /\ started => Len(store.writers) < MaxWriters
    /\ SetRegistry(r.W)
    /\ store' = [store EXCEPT
                    !.writers = IF started THEN Append(@, [pc |-> "start", snap |-> <<>>])
                                ELSE @,
                    !.changed = @ \/ r.W # Registry]
    /\ ret' = [before |-> store.file] @@ Ret(op, name, err)
    /\ UNCHANGED <<conns, httpsRedirect, flows, tasks>>

\* postConfig and postService: UpdateConfig starts the writer as its last
\* step, which a panic of UpdateService does not reach
postConfig(c) ==
    \E r \in {UpdateConfig(Registry, c, httpsRedirect, {}, <<"b1", "b2">>)} :
       Handled("postConfig", "",  r,
               IF r.panic THEN "panic" ELSE IF Len(r.errors) = 0 THEN "nil" ELSE "multiError",
               ~r.panic)

\* deleteService
deleteService(name) ==
    \E r \in {RemoveService(Registry, name)} :
       Handled("deleteService", name, r, r.err, r.err = "nil")

\* postBackend
postBackend(name, b) ==
    \E r \in {AddBackend(Registry, name, b)} :
       Handled("postBackend", name, r, r.err, r.err = "nil")

\* deleteBackend
deleteBackend(name, backendName) ==
    \E r \in {RemoveBackend(Registry, name, backendName)} :
       Handled("deleteBackend", name, r, r.err, r.err = "nil")

\* writeStateConfig, the next step of writer i: configMutex.Lock(), which
\* waits for the mutex; then marshal(Registry.Config()), order being the order
\* the services come in; then the file is read and, when it differs, written,
\* and the deferred Unlock runs
writeStateConfig(i, order) ==
    /\ i \in DOMAIN store.writers
    /\ LET w == store.writers[i]
       IN \/ /\ w.pc = "start" /\ ~store.locked
             /\ store' = [store EXCEPT !.locked = TRUE, !.writers[i].pc = "locked"]
             /\ ret' = [before |-> store.file] @@ Ret("writeStateConfig", "", "locked")
          \/ /\ w.pc = "locked" /\ order \in MapOrders(Registry)
             /\ store' = [store EXCEPT !.writers[i] =
                             [pc |-> "read", snap |-> <<marshal(Config(Registry, order))>>]]
             /\ ret' = [before |-> store.file] @@ Ret("writeStateConfig", "", "read")
          \/ /\ w.pc = "read"
             /\ store' = [store EXCEPT !.file = w.snap, !.locked = FALSE,
                                       !.writers = RemoveAt(@, i)]
             /\ ret' = [before |-> store.file] @@
                       Ret("writeStateConfig", "", IF w.snap = store.file THEN "skipped"
                                                   ELSE "written")
    /\ UNCHANGED <<svcs, vhosts, cfg, loops, orphans, conns, httpsRedirect, flows, tasks>>

\* the configs posted: s1 alone, s1 with the hostnames "a" and "", s1 with the
\* hostname "a", s2, and a global default
StateServices ==
    {[ZeroServiceConfig("s1") EXCEPT !.Addr = "x"],
     [ZeroServiceConfig("s1") EXCEPT !.Addr = "x", !.VHNil = FALSE, !.VirtualHosts = <<1, 0>>],
     [ZeroServiceConfig("s1") EXCEPT !.Addr = "x", !.VHNil = FALSE, !.VirtualHosts = <<1>>],
     [ZeroServiceConfig("s2") EXCEPT !.Addr = "y"]}

StateConfigs ==
    {ZeroConfig @@ [Services |-> <<s>>] : s \in StateServices}
    \cup {[ZeroConfig EXCEPT !.Fall = 3] @@ [Services |-> <<>>]}

StateBackend == [ZeroBackendConfig("b1") EXCEPT !.Addr = "u"]

StateOrders == SeqsUpTo(Names, Cardinality(Names))

NextState ==
    \/ \E c \in StateConfigs : postConfig(c)
    \/ \E n \in Names : deleteService(n)
    \/ postBackend("s1", StateBackend)
    \/ deleteBackend("s1", "b1")
    \/ \E i \in 1..MaxWriters, order \in StateOrders : writeStateConfig(i, order)

SpecState == Init /\ [][NextState]_vars

\* the serializations of the config of the registry as it is
Serializations == {<<marshal(Config(Registry, o))>> : o \in MapOrders(Registry)}

\* the writers that hold configMutex
Writing == {i \in DOMAIN store.writers : store.writers[i].pc \in {"locked", "read"}}

\* C40: the writers of the state file run one at a time; when the handlers
\* have changed the registry and every writer they started has finished, the
\* file holds a serialization of the config of the registry as it is; and a
\* writer writes only when its serialization differs from the file.
C40_StateFileFollowsRegistry ==
    /\ Cardinality(Writing) <= 1
    /\ (store.changed /\ store.writers = <<>>) => store.file \in Serializations
    /\ (ret.op = "writeStateConfig" /\ ret.err = "written") => ret.before # store.file

====
